---- MODULE Spec2Model ----
(***************************************************************************)
(* Macdonald polynomial bases (sage/combinat/sf/macdonald.py): the basis   *)
(* constructors and their instance caches, the structural scalars c1 and   *)
(* c2, the specialised qt-scalar products and diagonal coercions of the    *)
(* P, Q and J bases, and the globally cached qt_kostka function.           *)
(***************************************************************************)
EXTENDS Integers, Sequences, FiniteSets, Bags, TLC

VARIABLES
    cache,        \* cache_p .. cache_s: family -> (key -> instance id)
    instances,    \* every basis object constructed so far, by identity
    coercions,    \* the coercions registered so far, <<from, to>>
    s_cache,      \* j_to_s_cache .. S_to_s_cache: family -> degrees present
    kostka,       \* _qt_kostka_cache: <<lam, mu>> -> polynomial
    call,         \* the last call made (operation and arguments)
    res           \* what that call returned or raised

vars == <<cache, instances, coercions, s_cache, kostka, call, res>>

(***************************************************************************)
(* Bounds.                                                                 *)
(***************************************************************************)
\* Largest weight of a partition handed to the pure functions.
MaxWeight == 3
\* Largest degree handed to qt_kostka.
MaxKostkaWeight == 2
\* Largest number of basis objects constructed in one run.
MaxInstances == 5

(***************************************************************************)
(* Integer partitions.                                                     *)
(***************************************************************************)
RECURSIVE SeqSum(_)
SeqSum(s) == IF Len(s) = 0 THEN 0 ELSE Head(s) + SeqSum(Tail(s))

IsPartition(s) == \A i \in 1..Len(s) : s[i] >= 1 /\ (i > 1 => s[i-1] >= s[i])

\* Partitions(n): the partitions of weight n.
Partitions(n) ==
    {s \in UNION {[1..k -> 1..n] : k \in 0..n} : IsPartition(s) /\ SeqSum(s) = n}

PartitionsUpTo(n) == UNION {Partitions(k) : k \in 0..n}

\* part.size()
Size(part) == SeqSum(part)

\* part.conjugate()
Conjugate(part) ==
    IF Len(part) = 0 THEN <<>>
    ELSE [j \in 1..part[1] |-> Cardinality({i \in 1..Len(part) : part[i] >= j})]

\* part.arm_lengths(): one list per row, the cells strictly to the right.
arm_lengths(part) == [i \in 1..Len(part) |-> [j \in 1..part[i] |-> part[i] - j]]

\* part.leg_lengths(): one list per row, the cells strictly below.
leg_lengths(part) ==
    [i \in 1..Len(part) |-> [j \in 1..part[i] |-> Conjugate(part)[j] - i]]

\* sum(list_of_lists, []): the rows concatenated.
RECURSIVE Flatten(_)
Flatten(ll) == IF Len(ll) = 0 THEN <<>> ELSE Head(ll) \o Flatten(Tail(ll))

(***************************************************************************)
(* Polynomials in q, t with integer coefficients: a function from the      *)
(* exponent pairs of the support to the nonzero coefficients.              *)
(***************************************************************************)
PZero == [x \in {} |-> 0]

\* The function f, its values worked out where it is built and not at each
\* application.
Evaluated(f) == f @@ <<>>

PMono(c, i, j) == IF c = 0 THEN PZero ELSE [x \in {<<i, j>>} |-> c]

POne == PMono(1, 0, 0)

PCoef(a, x) == IF x \in DOMAIN a THEN a[x] ELSE 0

PAdd(a, b) ==
    LET D == DOMAIN a \cup DOMAIN b
    IN  Evaluated([x \in {y \in D : PCoef(a, y) + PCoef(b, y) # 0}
                      |-> PCoef(a, x) + PCoef(b, x)])

PNeg(a) == Evaluated([x \in DOMAIN a |-> 0 - a[x]])

PSub(a, b) == PAdd(a, PNeg(b))

RECURSIVE SumOver(_, _)
SumOver(S, f) ==
    IF S = {} THEN 0
    ELSE LET x == CHOOSE y \in S : TRUE IN f[x] + SumOver(S \ {x}, f)

\* The polynomial whose coefficient at an exponent pair z is the sum of
\* val(e) over the e in T with key(e) = z: the positive and the negative
\* values are gathered in two bags, P and N.
PCollected(P, N) ==
    Evaluated([z \in {w \in DOMAIN P \cup DOMAIN N : CopiesIn(w, P) # CopiesIn(w, N)}
                  |-> CopiesIn(z, P) - CopiesIn(z, N)])

PCollect(T, key(_), val(_)) ==
    PCollected(BagOfAll(key, [e \in {u \in T : val(u) > 0} |-> val(e)]),
               BagOfAll(key, [e \in {u \in T : val(u) < 0} |-> 0 - val(e)]))

PMul(a, b) ==
    PCollect((DOMAIN a) \X (DOMAIN b),
             LAMBDA e : <<e[1][1] + e[2][1], e[1][2] + e[2][2]>>,
             LAMBDA e : a[e[1]] * b[e[2]])

\* The sum of the polynomials f[x] for x in S.
PSumOverEvaluated(S, f) ==
    PCollect(UNION {{x} \X (DOMAIN f[x]) : x \in S},
             LAMBDA e : e[2], LAMBDA e : f[e[1]][e[2]])

PSumOver(S, f) == PSumOverEvaluated(S, Evaluated(f))

PSquare(a) == PMul(a, a)

RECURSIVE PPow(_, _)
PPow(a, n) ==
    IF n = 0 THEN POne
    ELSE IF n % 2 = 0 THEN PSquare(PPow(a, n \div 2))
    ELSE PMul(a, PSquare(PPow(a, n \div 2)))

\* A polynomial written out: the sum of the terms <<c, i, j>> = c q^i t^j.
RECURSIVE Poly(_)
Poly(terms) ==
    IF Len(terms) = 0 THEN PZero
    ELSE PAdd(PMono(terms[1][1], terms[1][2], terms[1][3]), Poly(Tail(terms)))

\* The generators of QQ['q,t'].
Pq == PMono(1, 1, 0)
Pt == PMono(1, 0, 1)

(***************************************************************************)
(* Elements of the fraction field: numerator and denominator, compared by  *)
(* cross-multiplication.                                                   *)
(***************************************************************************)
Frac(n, d) == [num |-> n, den |-> d]

RZero == Frac(PZero, POne)
ROne == Frac(POne, POne)

RFromPoly(a) == Frac(a, POne)

REq(a, b) == PMul(a.num, b.den) = PMul(b.num, a.den)

RIsZero(a) == a.num = PZero

RAdd(a, b) == Frac(PAdd(PMul(a.num, b.den), PMul(b.num, a.den)), PMul(a.den, b.den))

RMul(a, b) == Frac(PMul(a.num, b.num), PMul(a.den, b.den))

\* a / b; a division by zero raises ZeroDivisionError.
RDiv(a, b) ==
    IF RIsZero(b) THEN "ZeroDivisionError"
    ELSE Frac(PMul(a.num, b.den), PMul(a.den, b.num))

RInv(a) == RDiv(ROne, a)

(***************************************************************************)
(* The structural scalars.                                                 *)
(***************************************************************************)
\* c1's factor with the leg taken from the cell counted from the other end.
c1_factor_misaligned(part, q, t, i) ==
    PSub(POne, PMul(PPow(q, Flatten(arm_lengths(part))[i + 1] + 1),
                    PPow(t, Flatten(leg_lengths(part))[Size(part) - i])))

\* The i-th factor of c1, i counted from 0 as in range(part.size()).
c1_factor(part, q, t, i) ==
    PSub(POne, PMul(PPow(q, Flatten(arm_lengths(part))[i + 1] + 1),
                    PPow(t, Flatten(leg_lengths(part))[i + 1])))

RECURSIVE c1_loop(_, _, _, _)
c1_loop(part, q, t, n) ==
    IF n = 0 THEN POne
    ELSE PMul(c1_loop(part, q, t, n - 1), c1_factor(part, q, t, n - 1))

c1(part, q, t) == c1_loop(part, q, t, Size(part))

\* c2's factor with the exponents of c1.
c2_factor_as_c1(part, q, t, i) ==
    PSub(POne, PMul(PPow(q, Flatten(arm_lengths(part))[i + 1] + 1),
                    PPow(t, Flatten(leg_lengths(part))[i + 1])))

c2_factor(part, q, t, i) ==
    PSub(POne, PMul(PPow(q, Flatten(arm_lengths(part))[i + 1]),
                    PPow(t, Flatten(leg_lengths(part))[i + 1] + 1)))

RECURSIVE c2_loop(_, _, _, _)
c2_loop(part, q, t, n) ==
    IF n = 0 THEN POne
    ELSE PMul(c2_loop(part, q, t, n - 1), c2_factor(part, q, t, n - 1))

c2(part, q, t) == c2_loop(part, q, t, Size(part))

(***************************************************************************)
(* Elements: the basis they live in and their monomial coefficients, a     *)
(* function from partitions to fraction field elements.  The parent of     *)
(* every element below is the basis of its family over Frac(QQ[q,t]),      *)
(* with q, t the generators.                                               *)
(***************************************************************************)
Element(b, coeffs) == [basis |-> b, mc |-> coeffs]

\* B(part): the basis element indexed by part, with coefficient one.
BasisElement(b, part) == Element(b, [x \in {part} |-> ROne])

\* What a call gives: a value, or the exception it raises.
Value(v) == [kind |-> "value", val |-> v]
Raise(exc) == [kind |-> "error", val |-> exc]
\* The qt-scalar product taken on the power sums, which are not modelled:
\* the call is known to have taken the generic route with these operands.
PowerSumRoute(x, y) == [kind |-> "power_sum_route", val |-> <<x, y>>]

\* part2 = None.
NoPart == <<0>>

RECURSIVE RSumOver(_, _)
RSumOver(S, f) ==
    IF S = {} THEN RZero
    ELSE LET x == CHOOSE y \in S : TRUE IN RAdd(f[x], RSumOver(S \ {x}, f))

\* _apply_multi_module_morphism(x, y, f, orthogonal=True), f given by its
\* values on the diagonal: the sum over the common support of cx*cy*f(mx,mx).
apply_multi_module_morphism(x, y, fdiag) ==
    LET common == DOMAIN x.mc \cap DOMAIN y.mc
    IN  RSumOver(common,
                 [mx \in common |-> RMul(RMul(x.mc[mx], y.mc[mx]), fdiag[mx])])

\* module_morphism(diagonal = d, codomain = B) applied to x.
module_morphism(x, b, diag) ==
    Element(b, [part \in DOMAIN x.mc |-> RMul(x.mc[part], diag[part])])

(***************************************************************************)
(* The P basis.                                                            *)
(***************************************************************************)
\* MacdonaldPolynomials_generic.c1 and c2, as elements of the base ring.
self_c1(q, t, part) == RFromPoly(c1(part, q, t))
self_c2(q, t, part) == RFromPoly(c2(part, q, t))

scalar_qt_basis_swapped(q, t, part1, part2) ==
    IF part2 # NoPart /\ part1 # part2 THEN RZero
    ELSE RDiv(self_c2(q, t, part1), self_c1(q, t, part1))

scalar_qt_basis(q, t, part1, part2) ==
    IF part2 # NoPart /\ part1 # part2 THEN RZero
    ELSE RDiv(self_c1(q, t, part1), self_c2(q, t, part1))

\* MacdonaldPolynomials_q.Element.scalar_qt
Q_scalar_qt_p_diag(q, t, self, x) ==
    IF x.basis = "P"
    THEN Value(apply_multi_module_morphism(self, x,
                   [part \in DOMAIN self.mc |-> scalar_qt_basis(q, t, part, part)]))
    ELSE PowerSumRoute(self, x)

Q_scalar_qt(q, t, self, x) ==
    IF x.basis = "P"
    THEN Value(apply_multi_module_morphism(self, x,
                   [part \in DOMAIN self.mc |-> ROne]))
    ELSE PowerSumRoute(self, x)

\* MacdonaldPolynomials_p.Element.scalar_qt.  The last branch names the
\* class Element, which is no name of the method's scope.
P_scalar_qt(q, t, self, x) ==
    IF x.basis = "P"
    THEN Value(apply_multi_module_morphism(self, x,
                   [part \in DOMAIN self.mc |-> scalar_qt_basis(q, t, part, part)]))
    ELSE IF x.basis = "Q" THEN Q_scalar_qt(q, t, x, self)
    ELSE Raise("NameError")

\* MacdonaldPolynomials_j.Element.scalar_qt.  The last branch hands self
\* twice to the bound method of the superclass.
J_scalar_qt(q, t, self, x) ==
    IF x.basis = "J"
    THEN Value(apply_multi_module_morphism(self, x,
                   [part \in DOMAIN self.mc |->
                        RFromPoly(PMul(c1(part, q, t), c2(part, q, t)))]))
    ELSE Raise("TypeError")

\* MacdonaldPolynomials_generic.Element.scalar_qt
generic_scalar_qt(q, t, self, x) == PowerSumRoute(self, x)

\* self.scalar_qt(x), by the class of self.
scalar_qt(q, t, self, x) ==
    CASE self.basis = "P" -> P_scalar_qt(q, t, self, x)
      [] self.basis = "Q" -> Q_scalar_qt(q, t, self, x)
      [] self.basis = "J" -> J_scalar_qt(q, t, self, x)
      [] OTHER -> generic_scalar_qt(q, t, self, x)

(***************************************************************************)
(* The diagonal coercions the constructors register.                       *)
(***************************************************************************)
\* MacdonaldPolynomials_p.__init__: phi from J to P.
P_from_J(q, t, x) ==
    module_morphism(x, "P", [part \in DOMAIN x.mc |-> self_c2(q, t, part)])

J_from_P_c1(q, t, x) ==
    module_morphism(x, "J", [part \in DOMAIN x.mc |-> RInv(self_c1(q, t, part))])

\* MacdonaldPolynomials_p.__init__: ~phi from P to J.
J_from_P(q, t, x) ==
    module_morphism(x, "J", [part \in DOMAIN x.mc |-> RInv(self_c2(q, t, part))])

\* MacdonaldPolynomials_q.__init__: phi from P to Q.
Q_from_P(q, t, x) ==
    module_morphism(x, "Q", [part \in DOMAIN x.mc |-> scalar_qt_basis(q, t, part, NoPart)])

\* MacdonaldPolynomials_q.__init__: ~phi from Q to P.
P_from_Q(q, t, x) ==
    module_morphism(x, "P",
        [part \in DOMAIN x.mc |-> RInv(scalar_qt_basis(q, t, part, NoPart))])

\* The pairs of bases with a registered diagonal coercion, <<from, to>>.
DiagonalCoercions == {<<"J", "P">>, <<"P", "J">>, <<"P", "Q">>, <<"Q", "P">>}

Coerce(q, t, x, b) ==
    CASE <<x.basis, b>> = <<"J", "P">> -> P_from_J(q, t, x)
      [] <<x.basis, b>> = <<"P", "J">> -> J_from_P(q, t, x)
      [] <<x.basis, b>> = <<"P", "Q">> -> Q_from_P(q, t, x)
      [] <<x.basis, b>> = <<"Q", "P">> -> P_from_Q(q, t, x)


(***************************************************************************)
(* nabla on the Ht basis.                                                  *)
(***************************************************************************)
\* part.weighted_size(): the sum of (i-1) * part[i], rows counted from 1.
weighted_size(part) == SeqSum([i \in 1..Len(part) |-> (i - 1) * part[i]])

\* The eigenvalue with the conjugate taken on the side of t.
nabla_eigenvalue_conjugate_on_t(q, t, part) ==
    PMul(PPow(t, weighted_size(Conjugate(part))), PPow(q, weighted_size(part)))

\* (Ht.t)**(part.weighted_size()) * (Ht.q)**(part.conjugate().weighted_size())
nabla_eigenvalue(q, t, part) ==
    PMul(PPow(t, weighted_size(part)), PPow(q, weighted_size(Conjugate(part))))

\* MacdonaldPolynomials_ht.Element.nabla: _apply_module_morphism(self, f)
\* with f(part) the eigenvalue times Ht(part).
Ht_nabla(q, t, self) ==
    module_morphism(self, "Ht",
        [part \in DOMAIN self.mc |-> RFromPoly(nabla_eigenvalue(q, t, part))])

\* sum(B(p) for p in Partitions(n))
SumOfBasis(b, n) == Element(b, [part \in Partitions(n) |-> ROne])

(***************************************************************************)
(* The initial state: nothing constructed, nothing cached, nothing called. *)
(***************************************************************************)
Families == {"P", "Q", "J", "H", "Ht", "S"}

\* The families with an _s_cache method and a pair of Schur tables.
SchurFamilies == {"J", "H", "Ht", "S"}

\* The two Schur tables of a family, from the degree to the table: empty.
NoTables == [self_to_s |-> <<>>, s_to_self |-> <<>>]

NoCall == [op |-> "none"]
NoResult == [kind |-> "none", val |-> "none"]

Init ==
    /\ cache = [f \in Families |-> <<>>]
    /\ instances = <<>>
    /\ coercions = {}
    /\ s_cache = [f \in SchurFamilies |-> NoTables]
    /\ kostka = <<>>
    /\ call = NoCall
    /\ res = NoResult

(***************************************************************************)
(* Rings and their elements.  A ring is QQ with polynomial variables       *)
(* adjoined and fractions taken, one step at a time: <<>> is QQ and        *)
(* <<"q,t">> is Frac(QQ['q,t']).  An element carries its parent and its    *)
(* value, the value naming the smallest ring of the tower that holds it.   *)
(***************************************************************************)
QQ == <<>>

\* R[names].fraction_field()
FractionField(R, names) == Append(R, names)

QQqt == FractionField(QQ, "q,t")

Val(home, name) == [home |-> home, name |-> name]

Elt(parent, val) == [parent |-> parent, val |-> val]

\* The generator called name of the ring R.
Gen(R, name) == Elt(R, Val(R, name))

\* q = None, t = None.
None == Elt(QQ, Val(QQ, "None"))

IsPrefix(a, b) == Len(a) <= Len(b) /\ \A i \in 1..Len(a) : a[i] = b[i]

\* x in R
In(x, R) == IsPrefix(x.val.home, R)

\* R(x): x as an element of R.
Convert(R, x) == Elt(R, x.val)

(***************************************************************************)
(* sage.misc.cache.Cache: one dictionary per family from the key of a      *)
(* call to the object it returned.  A key keeps the spelling of the call   *)
(* (which of q, t were passed by keyword) and compares the arguments by    *)
(* value.                                                                  *)
(***************************************************************************)
\* c.key(br, q, t), c.key(br, q, t=t), c.key(br, q=q, t=t)
Key(style, R, q, t) == [style |-> style, ring |-> R, q |-> q.val, t |-> t.val]

Put(c, k, v) == [x \in DOMAIN c \cup {k} |-> IF x = k THEN v ELSE c[x]]

\* The program state the constructors read and write.
State(c, i, co) == [cache |-> c, instances |-> i, coercions |-> co]

\* The identity of a basis object: its family and the key of the call that
\* constructed it.  A key is stored when the __init__ it missed on returns
\* and is never removed, so no two objects made by a call of the cache
\* share an identity.
Id(fam, R, q, t) ==
    [family |-> fam, ring |-> R, q |-> q.val, t |-> t.val, direct |-> 0]

\* The identity of the k-th object made by calling a class itself, which
\* looks nothing up: such a call makes a new object every time.
DirectId(fam, R, q, t, k) == [Id(fam, R, q, t) EXCEPT !.direct = k]

\* No object: the call raised.
NoId == Id("none", QQ, None, None)

Basis(id) == [kind |-> "basis", id |-> id]
\* sfa.SFASchur(R)
SFASchur(R) == [kind |-> "schur", id |-> Id("s", R, None, None)]

Coercion(from, to) == [from |-> from, to |-> to]

\* _set_cache(c, self): the other spellings of self's parameters.
set_cache(st, fam, id) ==
    LET self == st.instances[id]
        br == self.base_ring
        c1_ == Put(st.cache[fam], Key("q=,t=", br, self.q, self.t), id)
        c2_ == Put(c1_, Key("q,t", br, self.q, self.t), id)
        c3_ == Put(c2_, Key("q,t", br, self.q, self.t), id)
        c4_ == Put(c3_, Key("q,t=", br, self.q, self.t), id)
    IN  [st EXCEPT !.cache[fam] = c4_]

(***************************************************************************)
(* MacdonaldPolynomials_generic.__init__: the parameters of the new        *)
(* object, or ValueError.                                                  *)
(***************************************************************************)
Params(R, q, t) == [base_ring |-> R, q |-> q, t |-> t]

generic_init_unchecked_q(R, q, t) ==
    IF t = None /\ q = None
    THEN LET R2 == FractionField(R, "q,t")
         IN  Value(Params(R2, Gen(R2, "q"), Gen(R2, "t")))
    ELSE IF t # None /\ q = None
    THEN IF ~In(t, R) THEN Raise("ValueError")
         ELSE LET R2 == FractionField(R, "q")
              IN  Value(Params(R2, Gen(R2, "q"), Convert(R, t)))
    ELSE IF t = None /\ q # None
    THEN LET R2 == FractionField(R, "t")
         IN  Value(Params(R2, Convert(R, q), Gen(R2, "t")))
    ELSE IF ~In(t, R) THEN Raise("ValueError")
         ELSE Value(Params(R, Convert(R, q), Convert(R, t)))

generic_init_extends_always(R, q, t) ==
    IF t = None /\ q = None
    THEN LET R2 == FractionField(R, "q,t")
         IN  Value(Params(R2, Gen(R2, "q"), Gen(R2, "t")))
    ELSE IF t # None /\ q = None
    THEN IF ~In(t, R) THEN Raise("ValueError")
         ELSE LET R2 == FractionField(R, "q")
              IN  Value(Params(R2, Gen(R2, "q"), Convert(R, t)))
    ELSE IF t = None /\ q # None
    THEN IF ~In(q, R) THEN Raise("ValueError")
         ELSE LET R2 == FractionField(R, "t")
              IN  Value(Params(R2, Convert(R, q), Gen(R2, "t")))
    ELSE IF ~In(t, R) \/ ~In(q, R) THEN Raise("ValueError")
         ELSE Value(Params(FractionField(R, "q,t"), Convert(R, q), Convert(R, t)))

generic_init(R, q, t) ==
    IF t = None /\ q = None
    THEN LET R2 == FractionField(R, "q,t")
         IN  Value(Params(R2, Gen(R2, "q"), Gen(R2, "t")))
    ELSE IF t # None /\ q = None
    THEN IF ~In(t, R) THEN Raise("ValueError")
         ELSE LET R2 == FractionField(R, "q")
              IN  Value(Params(R2, Gen(R2, "q"), Convert(R, t)))
    ELSE IF t = None /\ q # None
    THEN IF ~In(q, R) THEN Raise("ValueError")
         ELSE LET R2 == FractionField(R, "t")
              IN  Value(Params(R2, Convert(R, q), Gen(R2, "t")))
    ELSE IF ~In(t, R) \/ ~In(q, R) THEN Raise("ValueError")
         ELSE Value(Params(R, Convert(R, q), Convert(R, t)))

\* The new object, with the arguments it was constructed from.
Instance(fam, R, q, t) ==
    LET p == generic_init(R, q, t).val
    IN  [family |-> fam, base_ring |-> p.base_ring, q |-> p.q, t |-> p.t,
         args |-> <<R, q, t>>]

\* The end of MacdonaldPolynomials_generic.__init__ for the object id: a
\* basis with an _s_cache method registers the coercions from and to the
\* Schur functions over its base ring.
register_schur(st, fam, id) ==
    IF fam \in SchurFamilies
    THEN LET s == SFASchur(st.instances[id].base_ring)
         IN  [st EXCEPT !.coercions =
                  @ \cup {Coercion(s, Basis(id)), Coercion(Basis(id), s)}]
    ELSE st

\* The object is allocated and MacdonaldPolynomials_generic.__init__ run.
allocate(st, fam, R, q, t) ==
    LET id == Id(fam, R, q, t)
        st1 == [st EXCEPT !.instances = Put(@, id, Instance(fam, R, q, t))]
    IN  [st |-> register_schur(st1, fam, id), id |-> id]

\* phi and ~phi registered between the bases a and b.
register_pair(st, a, b) ==
    [st EXCEPT !.coercions =
         @ \cup {Coercion(Basis(a), Basis(b)), Coercion(Basis(b), Basis(a))}]

(***************************************************************************)
(* The constructors.  MacdonaldPolynomialsF(R, q, t) is cache_f(R, q, t):  *)
(* the object under the key of the call if there is one, and otherwise a   *)
(* new object, stored under that key once its __init__ has returned.  An   *)
(* __init__ that raises stores nothing.  Each gives the state it leaves    *)
(* and the object it returns (NoId when it raises).                        *)
(***************************************************************************)
Ret(st, id) == [st |-> st, id |-> id]

\* cache_f(R, q, t) for the family fam, defined below.
RECURSIVE MacdonaldPolynomials(_, _, _, _, _)

\* Each __init__ below is written in the order of its statements: the
\* operator named for the class allocates the object and runs
\* MacdonaldPolynomials_generic.__init__, and hands the outcome a (the state
\* and the new object) to the statements that follow.

\* MacdonaldPolynomials_s.__init__: _set_cache(cache_s, self).
init_s_rest(a) == Ret(set_cache(a.st, "S", a.id), a.id)

init_s(st, R, q, t) == init_s_rest(allocate(st, "S", R, q, t))

\* MacdonaldPolynomials_j.__init__: self._S = MacdonaldPolynomialsS(QQ),
\* then _set_cache(cache_j, self).
init_j_rest(a) ==
    Ret(set_cache(MacdonaldPolynomials("S", a.st, QQ, None, None).st, "J", a.id),
        a.id)

init_j(st, R, q, t) == init_j_rest(allocate(st, "J", R, q, t))

\* MacdonaldPolynomials_p.__init__: phi and ~phi are registered between
\* self._J, the object j returns, and self.
init_p_register(self, j) == Ret(register_pair(j.st, j.id, self), self)

\* MacdonaldPolynomials_p.__init__: _set_cache(cache_p, self), then
\* self._J = MacdonaldPolynomialsJ(R, q, t).
init_p_rest(a, R, q, t) ==
    init_p_register(a.id,
        MacdonaldPolynomials("J", set_cache(a.st, "P", a.id), R, q, t))

init_p(st, R, q, t) == init_p_rest(allocate(st, "P", R, q, t), R, q, t)

\* MacdonaldPolynomials_q.__init__: phi and ~phi are registered between
\* self._P, the object p returns, and self, then _set_cache(cache_q, self).
init_q_register(self, p) ==
    Ret(set_cache(register_pair(p.st, p.id, self), "Q", self), self)

\* MacdonaldPolynomials_q.__init__: self._J and then self._P, both from
\* self.base_ring(), self.q, self.t.
init_q_rest(a, self) ==
    init_q_register(a.id,
        MacdonaldPolynomials("P",
            MacdonaldPolynomials("J", a.st, self.base_ring, self.q, self.t).st,
            self.base_ring, self.q, self.t))

init_q_allocated(a) == init_q_rest(a, a.st.instances[a.id])

init_q(st, R, q, t) == init_q_allocated(allocate(st, "Q", R, q, t))

\* MacdonaldPolynomials_ht.__init__: self._J from self.base_ring(), self.q,
\* self.t, then _set_cache(cache_ht, self).
init_ht_rest(a, self) ==
    Ret(set_cache(
            MacdonaldPolynomials("J", a.st, self.base_ring, self.q, self.t).st,
            "Ht", a.id),
        a.id)

init_ht_allocated(a) == init_ht_rest(a, a.st.instances[a.id])

init_ht(st, R, q, t) == init_ht_allocated(allocate(st, "Ht", R, q, t))

\* MacdonaldPolynomials_h.__init__: self._Ht = MacdonaldPolynomialsHt(QQ),
\* then _set_cache(cache_h, self).
init_h_rest(a) ==
    Ret(set_cache(MacdonaldPolynomials("Ht", a.st, QQ, None, None).st, "H", a.id),
        a.id)

init_h(st, R, q, t) == init_h_rest(allocate(st, "H", R, q, t))

\* The __init__ of the class of the family fam.
init(fam, st, R, q, t) ==
    CASE fam = "P" -> init_p(st, R, q, t)
      [] fam = "Q" -> init_q(st, R, q, t)
      [] fam = "J" -> init_j(st, R, q, t)
      [] fam = "H" -> init_h(st, R, q, t)
      [] fam = "Ht" -> init_ht(st, R, q, t)
      [] fam = "S" -> init_s(st, R, q, t)

\* Cache.__call__ on a miss, once the __init__ has returned: the object is
\* stored under the key of the call.
cache_store(fam, key, made) ==
    Ret([made.st EXCEPT !.cache[fam] = Put(@, key, made.id)], made.id)

\* Cache.__call__ of cache_f.
MacdonaldPolynomials(fam, st, R, q, t) ==
    IF Key("q,t", R, q, t) \in DOMAIN st.cache[fam]
    THEN Ret(st, st.cache[fam][Key("q,t", R, q, t)])
    ELSE IF generic_init(R, q, t).kind = "error" THEN Ret(st, NoId)
    ELSE cache_store(fam, Key("q,t", R, q, t), init(fam, st, R, q, t))

MacdonaldPolynomialsJ(st, R, q, t) == MacdonaldPolynomials("J", st, R, q, t)

MacdonaldPolynomialsH(st, R, q, t) == MacdonaldPolynomials("H", st, R, q, t)

(***************************************************************************)
(* Expansions in the Schur functions with coefficients in QQ[q,t]: a       *)
(* function from the partitions of the support to nonzero polynomials.     *)
(***************************************************************************)
XZero == [x \in {} |-> PZero]

XCoef(a, part) == IF part \in DOMAIN a THEN a[part] ELSE PZero

XAdd(a, b) ==
    Evaluated([x \in {y \in DOMAIN a \cup DOMAIN b :
                         PAdd(XCoef(a, y), XCoef(b, y)) # PZero}
                  |-> PAdd(XCoef(a, x), XCoef(b, x))])

XScale(c, a) ==
    Evaluated([x \in {y \in DOMAIN a : PMul(c, a[y]) # PZero} |-> PMul(c, a[x])])

RECURSIVE XSumOver(_, _)
XSumOver(S, f) ==
    IF S = {} THEN XZero
    ELSE LET x == CHOOSE y \in S : TRUE IN XAdd(f[x], XSumOver(S \ {x}, f))

\* part[i], zero past the last row.
Part(part, i) == IF i <= Len(part) THEN part[i] ELSE 0

\* The partitions lam with lam/mu a horizontal strip of k cells: lam has at
\* most one row more than mu and lam[1] <= mu[1] + k; the rows are drawn
\* with their zeros and the zeros dropped.
HorizontalStrips(mu, k) ==
    {SubSeq(l, 1, Cardinality({i \in 1..Len(l) : l[i] > 0})) :
        l \in {lam \in [1..(Len(mu) + 1) -> 0..(Part(mu, 1) + k)] :
                  /\ SeqSum(lam) = Size(mu) + k
                  /\ \A i \in 1..(Len(mu) + 1) :
                         Part(lam, i) >= Part(mu, i) /\ Part(mu, i) >= Part(lam, i + 1)}}

\* S._s(h[values]): the product of the complete functions h[v] in the
\* Schur functions, one Pieri rule for each factor.
pieri(x, k) ==
    XSumOver(DOMAIN x,
             [mu \in DOMAIN x |->
                 XScale(x[mu], [lam \in HorizontalStrips(mu, k) |-> POne])])

RECURSIVE h_to_s(_)
h_to_s(values) ==
    IF Len(values) = 0 THEN [x \in {<<>>} |-> POne]
    ELSE pieri(h_to_s(Tail(values)), Head(values))

\* The permutations of 1..k and their signs, for M.det().
Perms(k) == {s \in [1..k -> 1..k] : \A i, j \in 1..k : s[i] = s[j] => i = j}

Sign(s) ==
    IF Cardinality({x \in (1..Len(s)) \X (1..Len(s)) :
                       x[1] < x[2] /\ s[x[1]] > s[x[2]]}) % 2 = 0
    THEN 1 ELSE 0 - 1

Max(a, b) == IF a >= b THEN a ELSE b

(***************************************************************************)
(* The S basis: the creation operators, and the Schur expansion.           *)
(***************************************************************************)
\* _creation_by_determinant_helper: the matrix m, rows i and columns j
\* counted from 1.  An entry left of the first column the row fills is 0.
creation_entry_is_zero(part, i, j) == j - 1 < Max(0, i - 2 - Part(part, i))

\* The value without the shift by one.
creation_entry_value_unshifted(part, i, j) == Part(part, i) + j - i

\* value = part[i]+j-i+1
creation_entry_value(part, i, j) == Part(part, i) + j - i + 1

\* (1-q**(part[i]+j-i+1)*t**(k-(j+1))), the coefficient of h(p).
creation_entry_coefficient(q, t, k, part, i, j) ==
    PSub(POne, PMul(PPow(q, creation_entry_value(part, i, j)), PPow(t, k - j)))

\* The product of the coefficients of the entries (i, s[i]) for i in 1..n.
RECURSIVE creation_term_coefficient(_, _, _, _, _, _)
creation_term_coefficient(q, t, k, part, s, n) ==
    IF n = 0 THEN POne
    ELSE PMul(creation_entry_coefficient(q, t, k, part, n, s[n]),
              creation_term_coefficient(q, t, k, part, s, n - 1))

\* The h(p) of the entries (i, s[i]): p = [value] if value > 0 else [].
creation_term_values(k, part, s) ==
    SelectSeq([i \in 1..k |-> creation_entry_value(part, i, s[i])],
              LAMBDA v : v > 0)

\* S._s(M.det()): the determinant, a signed sum over the permutations, in
\* the Schur functions.  The parts never have more than k rows when J._to_s
\* creates the columns, the shortest first.
creation_by_determinant_helper(q, t, k, part) ==
    LET terms == {s \in Perms(k) :
                     \A i \in 1..k : ~creation_entry_is_zero(part, i, s[i])}
    IN  XSumOver(terms,
                 [s \in terms |->
                     XScale(PMul(PMono(Sign(s), 0, 0),
                                 creation_term_coefficient(q, t, k, part, s, k)),
                            h_to_s(creation_term_values(k, part, s)))])

\* x.creation(k) = S._apply_module_morphism(x, helper(k, .)).
creation(q, t, x, k) ==
    XSumOver(DOMAIN x,
             [part \in DOMAIN x |->
                 XScale(x[part], creation_by_determinant_helper(q, t, k, part))])

\* The 0 a row is padded with on the left.
ZeroEntry == [built |-> FALSE, coefficient |-> PZero, h |-> <<>>]

\* max(0, (i+1)-2-part[i]): the number of zeros row i starts with.
creation_row_zeros(part, i) == Max(0, i - 2 - Part(part, i))

\* (1-q**(part[i]+j-i+1)*t**(k-(j+1)))*h(p), p = [value] if value > 0
\* else []: the entry appended to row i for the column j.
creation_entry(q, t, k, part, i, j) ==
    [built |-> TRUE,
     coefficient |-> creation_entry_coefficient(q, t, k, part, i, j),
     h |-> IF creation_entry_value(part, i, j) > 0
           THEN <<creation_entry_value(part, i, j)>> ELSE <<>>]

\* row = [0]*max(0, (i+1)-2-part[i]) and then one entry appended for each j
\* in range(max(0, (i+1)-2-part[i]), k).
creation_row(q, t, k, part, i) ==
    [z \in 1..creation_row_zeros(part, i) |-> ZeroEntry]
    \o [n \in 1..(k - creation_row_zeros(part, i)) |->
           creation_entry(q, t, k, part, i, creation_row_zeros(part, i) + n)]

\* m: one row appended for each i in range(k).
creation_matrix(q, t, k, part) ==
    [i \in 1..k |-> creation_row(q, t, k, part, i)]

\* x.creation(k) as a call: the helper raises ValueError on a partition of
\* more than k parts, before it builds the matrix, and
\* _apply_module_morphism runs the helper on every partition of the support.
creation_called(q, t, x, k) ==
    IF \E part \in DOMAIN x : Len(part) > k
    THEN Raise("ValueError")
    ELSE Value(creation(q, t, x, k))

\* The matrices the helper has built, by partition, when creation returns.
creation_matrices(q, t, x, k) ==
    IF \E part \in DOMAIN x : Len(part) > k
    THEN <<>>
    ELSE [part \in DOMAIN x |-> creation_matrix(q, t, k, part)]

\* The parts in the order they are written.
not_reversed(part) == part

\* reversed(part)
reversed(part) == [i \in 1..Len(part) |-> part[Len(part) + 1 - i]]

\* self._S(1), the unit of the S basis.
S_one == [x \in {<<>>} |-> POne]

\* The expansion with no partition conjugated.
omega_qt_in_schurs_unconjugated(x) == x

\* _omega_qt_in_schurs: S[part] goes to s[part.conjugate()].
omega_qt_in_schurs(x) ==
    XSumOver(DOMAIN x, [part \in DOMAIN x |-> [c \in {Conjugate(part)} |-> x[part]]])

\* c(t,q): the coefficient with q and t exchanged.
swap_qt(c) ==
    Evaluated([x \in {<<y[2], y[1]>> : y \in DOMAIN c} |-> c[<<x[2], x[1]>>]])

\* for k in reversed(part): res = res.creation(k), from res = S(1); i is
\* the row of part the loop is about to create.
RECURSIVE J_creations(_, _)
J_creations(part, i) ==
    IF i > Len(part) THEN [x \in {<<>>} |-> POne]
    ELSE creation(Pq, Pt, J_creations(part, i + 1), part[i])

\* res.map_coefficients(lambda c: c(t,q))
map_swap_qt(x) == Evaluated([part2 \in DOMAIN x |-> swap_qt(x[part2])])

\* Largest degree of a Schur table the conversions are called on.
MaxTableDegree == 2

\* The partitions the Schur tables are computed for.
TableParts == PartitionsUpTo(Max(MaxKostkaWeight, MaxTableDegree))

\* MacdonaldPolynomials_j._to_s(part): the Schur expansion of J(part).
\* self._S is the S basis MacdonaldPolynomialsS(QQ) gave: its q and t are
\* the generators.
J_to_s_values ==
    Evaluated(
    [part \in TableParts |->
        map_swap_qt(omega_qt_in_schurs(J_creations(part, 1)))])

J_to_s(part) == J_to_s_values[part]

(***************************************************************************)
(* The power sums: the characters of the symmetric groups carry the Schur  *)
(* functions to them and back.                                             *)
(***************************************************************************)
\* The value of the irreducible character lam on the class mu, for the
\* weights up to 3.
Character(lam, mu) ==
    IF Len(lam) <= 1 THEN 1
    ELSE IF lam[1] = 1 THEN (IF (Size(mu) - Len(mu)) % 2 = 0 THEN 1 ELSE 0 - 1)
    ELSE CASE mu = <<1, 1, 1>> -> 2
           [] mu = <<2, 1>> -> 0
           [] mu = <<3>> -> 0 - 1

RECURSIVE Factorial(_)
Factorial(n) == IF n = 0 THEN 1 ELSE n * Factorial(n - 1)

RECURSIVE IntPow(_, _)
IntPow(a, n) == IF n = 0 THEN 1 ELSE a * IntPow(a, n - 1)

\* The order of the centraliser of the class mu: the product over the part
\* sizes i, up to n, of i^m * m!, m the number of parts equal to i.
RECURSIVE zee(_, _)
zee(mu, n) ==
    IF n = 0 THEN 1
    ELSE LET m == Cardinality({j \in 1..Len(mu) : mu[j] = n})
         IN  IntPow(n, m) * Factorial(m) * zee(mu, n - 1)

\* The size of the class mu.
ClassSize(mu) == Factorial(Size(mu)) \div zee(mu, Size(mu))

\* a / d for an integer d that divides every coefficient of a.
PDivInt(a, d) == Evaluated([x \in DOMAIN a |-> a[x] \div d])

\* prod([(1-t**k) for k in m])
RECURSIVE S_to_s_factor(_, _)
S_to_s_factor(t, m) ==
    IF Len(m) = 0 THEN POne
    ELSE PMul(PSub(POne, PPow(t, Head(m))), S_to_s_factor(t, Tail(m)))

\* The coefficient of s[part2] in s(p(s(part)).map_item(f)): the sum over
\* the power sums p[m] of chi(part, m) chi(part2, m) / zee(m) times the
\* factor f puts on p[m].
S_to_s_coefficient(t, part, part2) ==
    PDivInt(PSumOver(Partitions(Size(part)),
                     [m \in Partitions(Size(part)) |->
                         PMul(PMono(ClassSize(m) * Character(part, m)
                                        * Character(part2, m), 0, 0),
                              S_to_s_factor(t, m))]),
            Factorial(Size(part)))

\* MacdonaldPolynomials_s._to_s(part) on the basis with self.t = t: the
\* Schur expansion of S(part).
S_to_s(t, part) ==
    Evaluated([part2 \in {p \in Partitions(Size(part)) :
                             S_to_s_coefficient(t, part, p) # PZero}
                  |-> S_to_s_coefficient(t, part, part2)])

\* x.scalar_t(y, t) on two Schur functions: the power sums are orthogonal
\* and p[m] pairs with itself to zee(m) / prod(1 - t^k for k in m).
scalar_t_values ==
    Evaluated(
    [x \in UNION {Partitions(n) \X Partitions(n) : n \in 0..Max(MaxKostkaWeight, MaxTableDegree)} |->
        RSumOver(Partitions(Size(x[1])),
             [m \in Partitions(Size(x[1])) |->
                 Frac(PMono(Character(x[1], m) * Character(x[2], m), 0, 0),
                      PMul(PMono(zee(m, Size(m)), 0, 0), S_to_s_factor(Pt, m)))])])

scalar_t(part, part2) == scalar_t_values[<<part, part2>>]

\* The largest exponent pair of a nonzero polynomial, q before t.
Lead(a) ==
    CHOOSE x \in DOMAIN a :
        \A y \in DOMAIN a : x[1] > y[1] \/ (x[1] = y[1] /\ x[2] >= y[2])

\* n / d for a polynomial d that divides n: the quotient, a leading term at
\* a time.
RECURSIVE PDivExact(_, _)
PDivExact(n, d) ==
    IF n = PZero THEN PZero
    ELSE LET term == PMono(n[Lead(n)] \div d[Lead(d)],
                           Lead(n)[1] - Lead(d)[1], Lead(n)[2] - Lead(d)[2])
         IN  PAdd(term, PDivExact(PSub(n, PMul(term, d)), d))

\* The largest exponent of t in a.
DegreeT(a) ==
    IF a = PZero THEN 0
    ELSE CHOOSE j \in {x[2] : x \in DOMAIN a} : \A x \in DOMAIN a : j >= x[2]

\* a(q, 1/t) * t^n for n at least the degree of a in t.
ReverseT(a, n) ==
    Evaluated([x \in {<<y[1], n - y[2]>> : y \in DOMAIN a} |-> a[<<x[1], n - x[2]>>]])

\* c.subs(t=1/t) * t**n for c in the fraction field, the result a
\* polynomial: numerator and denominator are cleared of the negative
\* powers of t by one common power.
subs_t_inverse_cleared(c, n, d) ==
    PDivExact(PMul(PPow(Pt, n), ReverseT(c.num, d)), ReverseT(c.den, d))

subs_t_inverse(c, n) ==
    subs_t_inverse_cleared(c, n, Max(DegreeT(c.num), DegreeT(c.den)))

\* J(part).scalar_t(s(p), t), J(part) expanded in the Schur functions.
J_scalar_t(part, p) ==
    RSumOver(DOMAIN J_to_s(part),
             [nu \in DOMAIN J_to_s(part) |->
                 RMul(RFromPoly(J_to_s(part)[nu]), scalar_t(nu, p))])

\* MacdonaldPolynomials_ht._to_s(part): the Schur expansion of Ht(part).
Ht_to_s_values ==
    Evaluated(
    [part \in TableParts |->
        Evaluated([p \in Partitions(Size(part)) |->
            subs_t_inverse(J_scalar_t(part, p), weighted_size(part))])])

Ht_to_s(part) == Ht_to_s_values[part]

\* MacdonaldPolynomials_h._to_s(part): the Schur expansion of H(part), from
\* that of Ht(part).
H_to_s_values ==
    Evaluated(
    [part \in TableParts |->
        Evaluated([p \in DOMAIN Ht_to_s(part) |->
            subs_t_inverse(RFromPoly(Ht_to_s(part)[p]), weighted_size(part))])])

H_to_s(part) == H_to_s_values[part]

(***************************************************************************)
(* _invert_morphism of the symmetric function algebras: the table of a     *)
(* basis in the Schur functions in degree n and its inverse.  The examples *)
(* of the four _s_cache methods list inverses of tables that are not       *)
(* triangular: the inverse is the matrix inverse, cofactors over the       *)
(* determinant, and both tables leave the zero entries out.                *)
(***************************************************************************)
RECURSIVE SeqOf(_)
SeqOf(S) ==
    IF S = {} THEN <<>>
    ELSE LET x == CHOOSE y \in S : TRUE IN <<x>> \o SeqOf(S \ {x})

Without(s, i) == [j \in 1..(Len(s) - 1) |-> IF j < i THEN s[j] ELSE s[j + 1]]

IndexOf(s, x) == CHOOSE i \in 1..Len(s) : s[i] = x

\* The product of the entries (rows[i], cols[s[i]]) for i in 1..n.
RECURSIVE DetTerm(_, _, _, _, _)
DetTerm(M, rows, cols, s, n) ==
    IF n = 0 THEN POne
    ELSE PMul(XCoef(M[rows[n]], cols[s[n]]), DetTerm(M, rows, cols, s, n - 1))

Det(M, rows, cols) ==
    PSumOver(Perms(Len(rows)),
             [s \in Perms(Len(rows)) |->
                 PMul(PMono(Sign(s), 0, 0), DetTerm(M, rows, cols, s, Len(rows)))])

Cofactor(M, L, r, c) ==
    PMul(PMono(IF (IndexOf(L, r) + IndexOf(L, c)) % 2 = 0 THEN 1 ELSE 0 - 1, 0, 0),
         Det(M, Without(L, IndexOf(L, r)), Without(L, IndexOf(L, c))))

\* known_cache[n]: the rows to_other_function gives.
known_cache_n(M) ==
    Evaluated([part \in DOMAIN M |->
        Evaluated([part2 \in {p \in DOMAIN M : XCoef(M[part], p) # PZero} |->
            RFromPoly(M[part][part2])])])

inverse_cache_n_over(M, L, det) ==
    Evaluated([part \in DOMAIN M |->
        Evaluated([part2 \in {p \in DOMAIN M : Cofactor(M, L, p, part) # PZero} |->
            Frac(Cofactor(M, L, part2, part), det)])])

inverse_cache_n_listed(M, L) == inverse_cache_n_over(M, L, Det(M, L, L))

\* inverse_cache[n]
inverse_cache_n(M) == inverse_cache_n_listed(M, SeqOf(DOMAIN M))

(***************************************************************************)
(* The Schur tables.  A first conversion in degree n between a basis and   *)
(* the Schur functions runs the _s_cache(n) of the basis, which fills both *)
(* of its tables for n; computing the rows runs the _to_s of the basis.    *)
(* The tables of a family are two module-level dictionaries, from the      *)
(* degree to the table, that every object of the family shares.            *)
(***************************************************************************)
Tables(st, sc) == [st |-> st, s_cache |-> sc]

\* An element of a base ring as a polynomial in q and t.
AsPoly(x) ==
    CASE x.val.name = "q" -> Pq
      [] x.val.name = "t" -> Pt
      [] x.val.name = "1" -> POne
      [] x.val.name = "2" -> PMono(2, 0, 0)

\* The values of t the _to_s of the S bases compute with.
TableTs == {AsPoly(Gen(QQqt, "t")), PMono(2, 0, 0)}

\* self._to_s(part) for a basis of the family fam with self.t = t: only
\* the _to_s of S reads self.t.
to_s(fam, t, part) ==
    CASE fam = "J" -> J_to_s(part)
      [] fam = "Ht" -> Ht_to_s(part)
      [] fam = "H" -> H_to_s(part)
      [] fam = "S" -> S_to_s(t, part)

TableKeys ==
    {<<fam, t, n>> : fam \in SchurFamilies, t \in TableTs,
                     n \in 0..Max(MaxKostkaWeight, MaxTableDegree)}

to_s_rows(k) == Evaluated([part \in Partitions(k[3]) |-> to_s(k[1], k[2], part)])

\* The two tables _invert_morphism computes from the rows, computed once.
self_to_s_values == Evaluated([k \in TableKeys |-> known_cache_n(to_s_rows(k))])
s_to_self_values == Evaluated([k \in TableKeys |-> inverse_cache_n(to_s_rows(k))])

\* self._invert_morphism(n, QQqt, self._self_to_s_cache,
\*                       self._s_to_self_cache, to_other_function=self._to_s)
invert_morphism_direct_only(tables, fam, t, n) ==
    [tables EXCEPT !.self_to_s = Put(@, n, self_to_s_values[<<fam, t, n>>])]

invert_morphism(tables, fam, t, n) ==
    [self_to_s |-> Put(tables.self_to_s, n, self_to_s_values[<<fam, t, n>>]),
     s_to_self |-> Put(tables.s_to_self, n, s_to_self_values[<<fam, t, n>>])]

\* J._s_cache(n) with the basis-to-Schur table only.
J_s_cache_direct_only(tb, n) ==
    [tb EXCEPT !.s_cache["J"] =
        invert_morphism_direct_only(@, "J", AsPoly(Gen(QQqt, "t")), n)]

\* MacdonaldPolynomials_j._s_cache(n).  J._to_s works on the S basis object
\* the J basis already holds.
J_s_cache(tb, n) ==
    [tb EXCEPT !.s_cache["J"] = invert_morphism(@, "J", AsPoly(Gen(QQqt, "t")), n)]

\* s(J(part)): J._s_cache(n) on a first use.
J_self_to_s(tb, n) ==
    IF n \in DOMAIN tb.s_cache["J"].self_to_s THEN tb ELSE J_s_cache(tb, n)

\* MacdonaldPolynomials_ht._s_cache(n).  Ht._to_s calls
\* MacdonaldPolynomialsJ(QQ) and expands J(part) in the Schur functions.
Ht_s_cache(tb, n) ==
    [J_self_to_s(Tables(MacdonaldPolynomialsJ(tb.st, QQ, None, None).st,
                        tb.s_cache), n)
        EXCEPT !.s_cache["Ht"] = invert_morphism(@, "Ht", AsPoly(Gen(QQqt, "t")), n)]

\* s(Ht(part)): Ht._s_cache(n) on a first use.
Ht_self_to_s(tb, n) ==
    IF n \in DOMAIN tb.s_cache["Ht"].self_to_s THEN tb ELSE Ht_s_cache(tb, n)

\* MacdonaldPolynomials_h._s_cache(n).  H._to_s expands Ht(part) in the
\* Schur functions.
H_s_cache(tb, n) ==
    [Ht_self_to_s(tb, n)
        EXCEPT !.s_cache["H"] = invert_morphism(@, "H", AsPoly(Gen(QQqt, "t")), n)]

\* s(H(part)): H._s_cache(n) on a first use.
H_self_to_s(tb, n) ==
    IF n \in DOMAIN tb.s_cache["H"].self_to_s THEN tb ELSE H_s_cache(tb, n)

\* MacdonaldPolynomials_s._s_cache(n) on the object id: S._to_s computes
\* with self.t.
S_s_cache(tb, id, n) ==
    [tb EXCEPT !.s_cache["S"] =
        invert_morphism(@, "S", AsPoly(tb.st.instances[id].t), n)]

\* self._s_cache(n) on the object id.
s_cache_method(tb, id, n) ==
    CASE id.family = "J" -> J_s_cache(tb, n)
      [] id.family = "Ht" -> Ht_s_cache(tb, n)
      [] id.family = "H" -> H_s_cache(tb, n)
      [] id.family = "S" -> S_s_cache(tb, id, n)

\* a(q, t) for a polynomial a.
PSubs(a, q, t) ==
    PSumOver(DOMAIN a,
             [x \in DOMAIN a |->
                 PMul(PMono(a[x], 0, 0), PMul(PPow(q, x[1]), PPow(t, x[2])))])

\* c2.subs(q=q, t=t)
RSubs(c, q, t) == RDiv(RFromPoly(PSubs(c.num, q, t)), RFromPoly(PSubs(c.den, q, t)))

\* The end of _from_cache: the rows of the table for the parts of x, each
\* entry with q and t put in, summed into an element of the basis b.
from_cache_read(x, table, b, q, t) ==
    LET terms == {<<part, part2>> : part \in DOMAIN x.mc,
                                    part2 \in UNION {DOMAIN table[p] : p \in DOMAIN x.mc}}
        used == {k \in terms : k[2] \in DOMAIN table[k[1]]}
        c3(k) == RMul(x.mc[k[1]], RSubs(table[k[1]][k[2]], q, t))
        z_elt(part2) == RSumOver({k \in used : k[2] = part2},
                                 [k \in {u \in used : u[2] = part2} |-> c3(k)])
    IN  IF \E k \in used : PSubs(table[k[1]][k[2]].den, q, t) = PZero
        THEN Raise("ZeroDivisionError")
        ELSE Value(Element(b, [part2 \in {k[2] : k \in {u \in used : ~RIsZero(z_elt(u[2]))}}
                                  |-> z_elt(part2)]))

TRet(tb, r) == [tb |-> tb, res |-> r]

\* _from_cache(x, cache_function, cache_dict, q=self.q, t=self.t) on a
\* basis element x = B(part): cache_function(n) runs if cache_dict has no
\* n, and the table is read.
from_cache_filled(tb, id, part, which, from, to) ==
    TRet(tb, from_cache_read(BasisElement(from, part),
                             tb.s_cache[id.family][which][Size(part)], to,
                             AsPoly(tb.st.instances[id].q),
                             AsPoly(tb.st.instances[id].t)))

from_cache(tb, id, part, which, from, to) ==
    from_cache_filled(IF Size(part) \in DOMAIN tb.s_cache[id.family][which]
                      THEN tb ELSE s_cache_method(tb, id, Size(part)),
                      id, part, which, from, to)

\* MacdonaldPolynomials_generic._self_to_s(self(part)) on the object id.
self_to_s(tb, id, part) == from_cache(tb, id, part, "self_to_s", id.family, "s")

\* MacdonaldPolynomials_generic._s_to_self(s(part)) on the object id.
s_to_self(tb, id, part) == from_cache(tb, id, part, "s_to_self", "s", id.family)

\* The Schur expansion of H(mu) over Frac(QQ[q,t]), a function from the
\* partitions of the weight of mu to the coefficients: the qt-Kostka
\* polynomials K[lam, mu](q,t), as the examples of MacdonaldPolynomialsH,
\* H._s_cache and H._to_s list them.
HToSchur(mu) ==
    LET K == CASE mu = <<>> -> [p \in {<<>>} |-> POne]
               [] mu = <<1>> -> [p \in {<<1>>} |-> POne]
               [] mu = <<2>> -> (<<2>> :> POne) @@ (<<1, 1>> :> Pq)
               [] mu = <<1, 1>> -> (<<2>> :> Pt) @@ (<<1, 1>> :> POne)
               [] mu = <<3>> ->
                    (<<3>> :> POne)
                    @@ (<<2, 1>> :> Poly(<< <<1, 1, 0>>, <<1, 2, 0>> >>))
                    @@ (<<1, 1, 1>> :> PMono(1, 3, 0))
               [] mu = <<2, 1>> ->
                    (<<3>> :> Pt)
                    @@ (<<2, 1>> :> Poly(<< <<1, 0, 0>>, <<1, 1, 1>> >>))
                    @@ (<<1, 1, 1>> :> Pq)
               [] mu = <<1, 1, 1>> ->
                    (<<3>> :> PMono(1, 0, 3))
                    @@ (<<2, 1>> :> Poly(<< <<1, 0, 1>>, <<1, 0, 2>> >>))
                    @@ (<<1, 1, 1>> :> POne)
    IN  [p \in DOMAIN K |-> RFromPoly(K[p])]

\* res.coefficient(part)
Coefficient(expansion, part) ==
    IF part \in DOMAIN expansion THEN expansion[part] ELSE RZero

\* c.numerator()
Numerator(c) == c.num

(***************************************************************************)
(* qt_kostka(lam, mu).  It gives the state it leaves, the qt-Kostka cache  *)
(* it leaves and what it returns.                                          *)
(***************************************************************************)
KRet(tb, kc, r) == [st |-> tb.st, s_cache |-> tb.s_cache, kostka |-> kc, res |-> r]

\* The cache after the two loops over the partitions of n.
kostka_fill_swapped(kc, n) ==
    LET new == {<<p1, p2>> : p1 \in Partitions(n), p2 \in Partitions(n)}
    IN  [k \in DOMAIN kc \cup new |->
            IF k \in new THEN Numerator(Coefficient(HToSchur(k[1]), k[2]))
            ELSE kc[k]]

\* The cache after the loops, the inner one stopped at p1 = p2.
kostka_fill_diagonal(kc, n) ==
    LET new == {<<p, p>> : p \in Partitions(n)}
    IN  [k \in DOMAIN kc \cup new |->
            IF k \in new THEN Numerator(Coefficient(HToSchur(k[2]), k[1]))
            ELSE kc[k]]

kostka_fill(kc, n) ==
    LET new == {<<p1, p2>> : p1 \in Partitions(n), p2 \in Partitions(n)}
    IN  [k \in DOMAIN kc \cup new |->
            IF k \in new THEN Numerator(Coefficient(HToSchur(k[2]), k[1]))
            ELSE kc[k]]

\* The end of qt_kostka on a miss: _qt_kostka_cache[(lam,mu)] is returned.
kostka_return(tb, kc, lam, mu) ==
    KRet(tb, kc, IF <<lam, mu>> \in DOMAIN kc
                 THEN Value(kc[<<lam, mu>>]) ELSE Raise("KeyError"))

\* qt_kostka on a miss: H = MacdonaldPolynomialsH(QQ), s(H(p2)) for the
\* partitions p2 of the size of mu, and the cache filled.
kostka_miss(st, sc, kc, lam, mu) ==
    kostka_return(
        H_self_to_s(Tables(MacdonaldPolynomialsH(st, QQ, None, None).st, sc),
                    Size(mu)),
        kostka_fill(kc, Size(mu)), lam, mu)

\* qt_kostka with the test of the sizes left out.
qt_kostka_no_size_test(st, sc, kc, lam, mu) ==
    IF <<lam, mu>> \in DOMAIN kc
    THEN KRet(Tables(st, sc), kc, Value(kc[<<lam, mu>>]))
    ELSE kostka_miss(st, sc, kc, lam, mu)

qt_kostka(st, sc, kc, lam, mu) ==
    IF Size(lam) # Size(mu)
    THEN KRet(Tables(st, sc), kc, Value(PZero))
    ELSE IF <<lam, mu>> \in DOMAIN kc
    THEN KRet(Tables(st, sc), kc, Value(kc[<<lam, mu>>]))
    ELSE kostka_miss(st, sc, kc, lam, mu)

(***************************************************************************)
(* The program: constructor calls and qt_kostka calls, in any order, one   *)
(* at a time.  A call leaves its arguments and its outcome in call and     *)
(* res until the caller has taken them.                                    *)
(***************************************************************************)
Idle == call.op = "none"
\* An element of no ring a constructor is called with.
Outsider == Gen(FractionField(QQ, "x"), "x")

Two == Elt(QQ, Val(QQ, "2"))

\* The arguments <<R, q, t>> of the constructor calls: over QQ every choice
\* of q and t among unspecified, 2 and an element outside QQ, and over
\* Frac(QQ['q,t']) the two generators passed explicitly.
InputArgs ==
    {<<QQ, q, t>> : q \in {None, Two, Outsider}, t \in {None, Two, Outsider}}
    \cup {<<QQqt, Gen(QQqt, "q"), Gen(QQqt, "t")>>}

KostkaParts == PartitionsUpTo(MaxKostkaWeight)

\* The state after a constructor call that gave r.
Constructed(r) ==
    /\ Cardinality(DOMAIN r.st.instances) <= MaxInstances
    /\ cache' = r.st.cache
    /\ instances' = r.st.instances
    /\ coercions' = r.st.coercions
    /\ res' = IF r.id = NoId THEN Raise("ValueError") ELSE Value(r.id)
    /\ UNCHANGED <<s_cache, kostka>>

\* MacdonaldPolynomialsF(R, q, t) for the family fam.
Construct(fam, R, q, t) ==
    /\ Idle
    /\ call' = [op |-> "construct", family |-> fam, R |-> R, q |-> q, t |-> t,
                hit |-> Key("q,t", R, q, t) \in DOMAIN cache[fam]]
    /\ Constructed(MacdonaldPolynomials(fam, State(cache, instances, coercions),
                                        R, q, t))

\* The state after a qt_kostka call that gave r.
KostkaCalled(r) ==
    /\ Cardinality(DOMAIN r.st.instances) <= MaxInstances
    /\ cache' = r.st.cache
    /\ instances' = r.st.instances
    /\ coercions' = r.st.coercions
    /\ s_cache' = r.s_cache
    /\ kostka' = r.kostka
    /\ res' = r.res

QtKostka(lam, mu) ==
    /\ Idle
    /\ call' = [op |-> "qt_kostka", lam |-> lam, mu |-> mu,
                hit |-> <<lam, mu>> \in DOMAIN kostka]
    /\ KostkaCalled(qt_kostka(State(cache, instances, coercions), s_cache, kostka,
                              lam, mu))

\* The caller takes the outcome of the last call.
Return ==
    /\ ~Idle
    /\ call' = NoCall
    /\ res' = NoResult
    /\ UNCHANGED <<cache, instances, coercions, s_cache, kostka>>

Next ==
    \/ \E fam \in Families, a \in InputArgs : Construct(fam, a[1], a[2], a[3])
    \/ \E lam \in KostkaParts, mu \in KostkaParts : QtKostka(lam, mu)
    \/ Return

Spec == Init /\ [][Next]_vars

(***************************************************************************)
(* The conversions: constructor calls of the bases with Schur tables, and  *)
(* on the objects made the calls B._s_cache(n), s(B(part)) and B(s(part)), *)
(* in any order, one at a time.                                            *)
(***************************************************************************)
\* The arguments <<R, q, t>> of the constructor calls: over QQ, with t
\* unspecified or 2.
TableArgs == {<<QQ, None, None>>, <<QQ, None, Two>>}

TableDegrees == 1..MaxTableDegree

\* The partitions the conversions are called on.
ConvertedParts == UNION {Partitions(n) : n \in TableDegrees}

\* The state after a call on the tables that gave r.
Tabled(r) ==
    /\ Cardinality(DOMAIN r.tb.st.instances) <= MaxInstances
    /\ cache' = r.tb.st.cache
    /\ instances' = r.tb.st.instances
    /\ coercions' = r.tb.st.coercions
    /\ s_cache' = r.tb.s_cache
    /\ res' = r.res
    /\ UNCHANGED kostka

\* B._s_cache(n) on the object id.
SCache(id, n) ==
    /\ Idle
    /\ call' = [op |-> "_s_cache", self |-> id, n |-> n]
    /\ Tabled(TRet(s_cache_method(Tables(State(cache, instances, coercions),
                                         s_cache), id, n),
                   Value("None")))

\* s(B(part)) for the object B = id.
SelfToS(id, part) ==
    /\ Idle
    /\ call' = [op |-> "_self_to_s", self |-> id, part |-> part,
                hit |-> Size(part) \in DOMAIN s_cache[id.family].self_to_s]
    /\ Tabled(self_to_s(Tables(State(cache, instances, coercions), s_cache),
                        id, part))

\* B(s(part)) for the object B = id.
SToSelf(id, part) ==
    /\ Idle
    /\ call' = [op |-> "_s_to_self", self |-> id, part |-> part,
                hit |-> Size(part) \in DOMAIN s_cache[id.family].s_to_self]
    /\ Tabled(s_to_self(Tables(State(cache, instances, coercions), s_cache),
                        id, part))

NextTables ==
    \/ \E fam \in SchurFamilies, a \in TableArgs : Construct(fam, a[1], a[2], a[3])
    \/ \E id \in DOMAIN instances, n \in TableDegrees : SCache(id, n)
    \/ \E id \in DOMAIN instances, part \in ConvertedParts : SelfToS(id, part)
    \/ \E id \in DOMAIN instances, part \in ConvertedParts : SToSelf(id, part)
    \/ Return

SpecTables == Init /\ [][NextTables]_vars

(***************************************************************************)
(* The specialisations q = 1 and t = 1: constructor calls of P and J over  *)
(* QQ with q or t fixed at 1, and on the objects made the calls            *)
(* P.scalar_qt_basis(part) and J(s(part)), in any order, one at a time.    *)
(***************************************************************************)
One == Elt(QQ, Val(QQ, "1"))

SpecialisedArgs == {<<QQ, None, None>>, <<QQ, None, One>>, <<QQ, One, None>>}

\* self.scalar_qt_basis(part1, part2) with self.q = q and self.t = t: the
\* quotient self.c1(part1) / self.c2(part1) raises when c2 is zero.
scalar_qt_basis_called(q, t, part1, part2) ==
    IF (part2 = NoPart \/ part1 = part2) /\ RIsZero(self_c2(q, t, part1))
    THEN Raise("ZeroDivisionError")
    ELSE Value(scalar_qt_basis(q, t, part1, part2))

\* P.scalar_qt_basis(part) on the object id.
ScalarQtBasisOn(id, part) ==
    /\ Idle
    /\ id.family = "P"
    /\ call' = [op |-> "scalar_qt_basis", self |-> id, part1 |-> part,
                part2 |-> NoPart]
    /\ res' = scalar_qt_basis_called(AsPoly(instances[id].q),
                                     AsPoly(instances[id].t), part, NoPart)
    /\ UNCHANGED <<cache, instances, coercions, s_cache, kostka>>

NextSpecialised ==
    \/ \E fam \in {"P", "J"}, a \in SpecialisedArgs :
           Construct(fam, a[1], a[2], a[3])
    \/ \E id \in DOMAIN instances, part \in ConvertedParts :
           ScalarQtBasisOn(id, part)
    \/ \E id \in DOMAIN instances, part \in ConvertedParts :
           id.family = "J" /\ SToSelf(id, part)
    \/ Return

SpecSpecialised == Init /\ [][NextSpecialised]_vars

(***************************************************************************)
(* qt_kostka called from several threads.  The interpreter runs one thread *)
(* at a time and may switch between any two statements, so a call is a     *)
(* sequence of steps: the tests of the sizes and of the cache, then the    *)
(* stores of the two loops one by one, then the return.  Here call and res *)
(* hold the call and the outcome of each thread.                           *)
(***************************************************************************)
MaxThreads == 2

\* The ordered pairs of partitions of n.
PairsOfDegree(n) == Partitions(n) \X Partitions(n)

Threads == 1..MaxThreads

\* The keys (p1, p2) in the order the loops store them: p2 in the outer
\* loop, p1 in the inner one.
LoopPairs(n) ==
    LET parts == SeqOf(Partitions(n))
    IN  [k \in 1..(Len(parts) * Len(parts)) |->
            <<parts[((k - 1) % Len(parts)) + 1],
              parts[((k - 1) \div Len(parts)) + 1]>>]

InitThreads ==
    /\ cache = [f \in Families |-> <<>>]
    /\ instances = <<>>
    /\ coercions = {}
    /\ s_cache = [f \in SchurFamilies |-> NoTables]
    /\ kostka = <<>>
    /\ call = [i \in Threads |-> NoCall]
    /\ res = [i \in Threads |-> NoResult]

\* Thread i calls qt_kostka(lam, mu).
ThreadCall(i, lam, mu) ==
    /\ call[i].op = "none"
    /\ call' = [call EXCEPT ![i] = [op |-> "qt_kostka", lam |-> lam, mu |-> mu,
                                    pc |-> "lookup", todo |-> <<>>,
                                    partial |-> FALSE]]
    /\ UNCHANGED <<cache, instances, coercions, s_cache, kostka, res>>

\* The state after MacdonaldPolynomialsH(QQ) and the first s(H(p2)).
kostka_prepare(st, sc, n) ==
    H_self_to_s(Tables(MacdonaldPolynomialsH(st, QQ, None, None).st, sc), n)

ThreadPrepared(i, tb) ==
    /\ Cardinality(DOMAIN tb.st.instances) <= MaxInstances
    /\ cache' = tb.st.cache
    /\ instances' = tb.st.instances
    /\ coercions' = tb.st.coercions
    /\ s_cache' = tb.s_cache
    /\ call' = [call EXCEPT ![i].pc = "fill",
                            ![i].todo = LoopPairs(Size(call[i].mu))]
    /\ UNCHANGED <<kostka, res>>

\* The tests of the sizes and of the cache; on a miss the H basis is made.
\* partial records that the key was found in a degree that is not whole.
ThreadLookup(i) ==
    /\ call[i].op = "qt_kostka" /\ call[i].pc = "lookup"
    /\ IF Size(call[i].lam) # Size(call[i].mu)
       THEN /\ res' = [res EXCEPT ![i] = Value(PZero)]
            /\ call' = [call EXCEPT ![i].pc = "returned"]
            /\ UNCHANGED <<cache, instances, coercions, s_cache, kostka>>
       ELSE IF <<call[i].lam, call[i].mu>> \in DOMAIN kostka
       THEN /\ res' = [res EXCEPT ![i] = Value(kostka[<<call[i].lam, call[i].mu>>])]
            /\ call' = [call EXCEPT
                          ![i].pc = "returned",
                          ![i].partial =
                              \E k \in PairsOfDegree(Size(call[i].mu)) :
                                  k \notin DOMAIN kostka]
            /\ UNCHANGED <<cache, instances, coercions, s_cache, kostka>>
       ELSE ThreadPrepared(i, kostka_prepare(State(cache, instances, coercions),
                                             s_cache, Size(call[i].mu)))

\* _qt_kostka_cache[(p1,p2)] = R(res.coefficient(p1).numerator())
ThreadStore(i) ==
    /\ call[i].op = "qt_kostka" /\ call[i].pc = "fill"
    /\ call[i].todo # <<>>
    /\ kostka' = Put(kostka, Head(call[i].todo),
                     Numerator(Coefficient(HToSchur(Head(call[i].todo)[2]),
                                           Head(call[i].todo)[1])))
    /\ call' = [call EXCEPT ![i].todo = Tail(@)]
    /\ UNCHANGED <<cache, instances, coercions, s_cache, res>>

\* return _qt_kostka_cache[(lam,mu)]
ThreadReturn(i) ==
    /\ call[i].op = "qt_kostka" /\ call[i].pc = "fill"
    /\ call[i].todo = <<>>
    /\ res' = [res EXCEPT ![i] = Value(kostka[<<call[i].lam, call[i].mu>>])]
    /\ call' = [call EXCEPT ![i].pc = "returned"]
    /\ UNCHANGED <<cache, instances, coercions, s_cache, kostka>>

\* The caller in thread i takes the outcome.
ThreadTake(i) ==
    /\ call[i].op = "qt_kostka" /\ call[i].pc = "returned"
    /\ call' = [call EXCEPT ![i] = NoCall]
    /\ res' = [res EXCEPT ![i] = NoResult]
    /\ UNCHANGED <<cache, instances, coercions, s_cache, kostka>>

NextThreads ==
    \/ \E i \in Threads, lam \in KostkaParts, mu \in KostkaParts :
           ThreadCall(i, lam, mu)
    \/ \E i \in Threads : ThreadLookup(i)
    \/ \E i \in Threads : ThreadStore(i)
    \/ \E i \in Threads : ThreadReturn(i)
    \/ \E i \in Threads : ThreadTake(i)

SpecThreads == InitThreads /\ [][NextThreads]_vars

(***************************************************************************)
(* nabla on the elements of the bases with Schur tables: constructor calls *)
(* of J, H, Ht and S, and on the objects made the call B(part).nabla(), in *)
(* any order, one at a time.                                               *)
(***************************************************************************)
\* The object is allocated by a call of the class and
\* MacdonaldPolynomials_generic.__init__ run.
allocate_direct(st, fam, R, q, t) ==
    LET id == DirectId(fam, R, q, t,
                       1 + Cardinality({i \in DOMAIN st.instances : i.direct > 0}))
        st1 == [st EXCEPT !.instances = Put(@, id, Instance(fam, R, q, t))]
    IN  [st |-> register_schur(st1, fam, id), id |-> id]

\* MacdonaldPolynomials_ht(R, q=q, t=t): the class, not cache_ht.
MacdonaldPolynomials_ht(st, R, q, t) ==
    init_ht_allocated(allocate_direct(st, "Ht", R, q, t))

\* The tables after parent._self_to_s on an element of degree n.
nabla_to_s_filled(tb, id, n) ==
    IF n \in DOMAIN tb.s_cache[id.family].self_to_s
    THEN tb ELSE s_cache_method(tb, id, n)

\* The tables after Ht._s_to_self on an element of degree n.
nabla_ht_filled(tb, n) ==
    IF n \in DOMAIN tb.s_cache["Ht"].s_to_self THEN tb ELSE Ht_s_cache(tb, n)

\* parent(Ht(self).nabla()), every conversion by way of the Schur functions.
nabla_value(sc, fam, self, n, q, t) ==
    from_cache_read(
        from_cache_read(
            Ht_nabla(q, t,
                from_cache_read(
                    from_cache_read(self, sc[fam].self_to_s[n], "s", q, t).val,
                    sc["Ht"].s_to_self[n], "Ht", q, t).val),
            sc["Ht"].self_to_s[n], "s", q, t).val,
        sc[fam].s_to_self[n], fam, q, t)

nabla_converted(tb, id, self, n) ==
    TRet(tb, nabla_value(tb.s_cache, id.family, self, n,
                         AsPoly(tb.st.instances[id].q),
                         AsPoly(tb.st.instances[id].t)))

\* MacdonaldPolynomials_generic.Element.nabla on self = B(part), B the
\* object id.
generic_nabla(tb, id, part) ==
    nabla_converted(
        nabla_ht_filled(
            nabla_to_s_filled(
                Tables(MacdonaldPolynomials_ht(tb.st, tb.st.instances[id].base_ring,
                                               tb.st.instances[id].q,
                                               tb.st.instances[id].t).st,
                       tb.s_cache),
                id, Size(part)),
            Size(part)),
        id, BasisElement(id.family, part), Size(part))

\* self.nabla(), by the class of self.
nabla(tb, id, part) ==
    IF id.family = "Ht"
    THEN TRet(tb, Value(Ht_nabla(AsPoly(tb.st.instances[id].q),
                                 AsPoly(tb.st.instances[id].t),
                                 BasisElement("Ht", part))))
    ELSE generic_nabla(tb, id, part)

\* B(part).nabla() for the object B = id.
Nabla(id, part) ==
    /\ Idle
    /\ call' = [op |-> "nabla", parent |-> id, part |-> part]
    /\ Tabled(nabla(Tables(State(cache, instances, coercions), s_cache), id, part))

\* The arguments <<R, q, t>> of the constructor calls: over QQ with q and t
\* unspecified, and over Frac(QQ['q,t']) with the two generators.
NablaArgs == {<<QQ, None, None>>, <<QQqt, Gen(QQqt, "q"), Gen(QQqt, "t")>>}

NextNabla ==
    \/ \E fam \in SchurFamilies, a \in NablaArgs : Construct(fam, a[1], a[2], a[3])
    \/ \E id \in DOMAIN instances, part \in ConvertedParts : Nabla(id, part)
    \/ Return

SpecNabla == Init /\ [][NextNabla]_vars

(***************************************************************************)
(* The creation operators: the calls x.creation(k) on elements x of an S   *)
(* basis and J._to_s(part), one at a time.  J._to_s is a sequence of       *)
(* steps, one for each statement it runs: the creations of the loop, the   *)
(* omega map, the exchange of q and t, the return.  Here call holds the    *)
(* position of the call and its local variables as well.                   *)
(***************************************************************************)
\* The q and t of the S bases creation is called on: those of
\* MacdonaldPolynomialsS(QQ) and of MacdonaldPolynomialsS(QQ, q=1).
CreationParents == {[q |-> Pq, t |-> Pt], [q |-> POne, t |-> Pt]}

\* The partitions of the elements creation is called on.
CreationParts == PartitionsUpTo(MaxWeight)

\* S(part) and S(part) + S(part2).
CreationElements ==
    {[x \in {part, part2} |-> POne] : part \in CreationParts, part2 \in CreationParts}

CreationFrame == UNCHANGED <<cache, instances, coercions, s_cache, kostka>>

\* x.creation(k) for x in the S basis with the q and t of parent.
Creation(parent, x, k) ==
    /\ Idle
    /\ call' = [op |-> "creation", parent |-> parent, self |-> x, k |-> k,
                m |-> creation_matrices(parent.q, parent.t, x, k)]
    /\ res' = creation_called(parent.q, parent.t, x, k)
    /\ CreationFrame

\* J._to_s(part) is called: q,t = QQqt.gens(); res = self._S(1).
ToSCall(part) ==
    /\ Idle
    /\ call' = [op |-> "_to_s", part |-> part, pc |-> "for",
                todo |-> reversed(part), applied |-> <<>>, res |-> S_one]
    /\ UNCHANGED res
    /\ CreationFrame

\* The state after res.creation(k) gave r.
ToSCreated(r) ==
    IF r.kind = "error"
    THEN /\ res' = r
         /\ call' = [call EXCEPT !.pc = "returned"]
    ELSE /\ call' = [call EXCEPT !.res = r.val, !.todo = Tail(@),
                                 !.applied = Append(@, Head(call.todo))]
         /\ UNCHANGED res

\* for k in reversed(part): res = res.creation(k), on the S basis
\* MacdonaldPolynomialsS(QQ).
ToSCreation ==
    /\ call.op = "_to_s" /\ call.pc = "for" /\ call.todo # <<>>
    /\ ToSCreated(creation_called(Pq, Pt, call.res, Head(call.todo)))
    /\ CreationFrame

\* res = res._omega_qt_in_schurs()
ToSOmega ==
    /\ call.op = "_to_s" /\ call.pc = "for" /\ call.todo = <<>>
    /\ call' = [call EXCEPT !.res = omega_qt_in_schurs(@),
                            !.pc = "map_coefficients"]
    /\ UNCHANGED res
    /\ CreationFrame

\* res = res.map_coefficients(lambda c: c(t,q))
ToSSwap ==
    /\ call.op = "_to_s" /\ call.pc = "map_coefficients"
    /\ call' = [call EXCEPT !.res = map_swap_qt(@), !.pc = "return"]
    /\ UNCHANGED res
    /\ CreationFrame

\* return f, the function from part2 to res.coefficient(part2).
ToSReturn ==
    /\ call.op = "_to_s" /\ call.pc = "return"
    /\ res' = Value(call.res)
    /\ call' = [call EXCEPT !.pc = "returned"]
    /\ CreationFrame

\* The caller takes the outcome of a call that has returned or raised.
CreationTake ==
    /\ call.op = "creation" \/ (call.op = "_to_s" /\ call.pc = "returned")
    /\ call' = NoCall
    /\ res' = NoResult
    /\ CreationFrame

NextCreation ==
    \/ \E parent \in CreationParents, x \in CreationElements, k \in 0..MaxWeight :
           Creation(parent, x, k)
    \/ \E part \in PartitionsUpTo(MaxWeight) : ToSCall(part)
    \/ ToSCreation
    \/ ToSOmega
    \/ ToSSwap
    \/ ToSReturn
    \/ CreationTake

SpecCreation == Init /\ [][NextCreation]_vars

(***************************************************************************)
(* The pure functions.  The initial state draws the call, on partitions of *)
(* weight at most MaxWeight and on basis elements over Frac(QQ[q,t]); the  *)
(* actions carry it out.                                                   *)
(***************************************************************************)
AlgParts == PartitionsUpTo(MaxWeight)

\* Largest number of coercions applied in a row to one element.
MaxHops == 2

AlgCalls ==
    {[op |-> "c1", part |-> part] : part \in AlgParts}
    \cup {[op |-> "c2", part |-> part] : part \in AlgParts}
    \cup {[op |-> "scalar_qt_basis", part1 |-> part1, part2 |-> part2] :
             part1 \in AlgParts, part2 \in AlgParts \cup {NoPart}}
    \cup {[op |-> "scalar_qt", self |-> BasisElement(b1, part1),
           x |-> BasisElement(b2, part2)] :
             b1 \in Families, b2 \in Families, part1 \in AlgParts, part2 \in AlgParts}
    \cup {[op |-> "coerce", origin |-> BasisElement(b, part), path |-> <<b>>] :
             b \in {"P", "Q", "J"}, part \in AlgParts}
    \cup {[op |-> "nabla", self |-> BasisElement("Ht", part)] : part \in AlgParts}
    \cup {[op |-> "nabla", self |-> SumOfBasis("Ht", n)] : n \in 0..MaxWeight}

InitAlg ==
    /\ cache = [f \in Families |-> <<>>]
    /\ instances = <<>>
    /\ coercions = {}
    /\ s_cache = [f \in SchurFamilies |-> NoTables]
    /\ kostka = <<>>
    /\ call \in AlgCalls
    /\ res = NoResult

AlgFrame == UNCHANGED <<cache, instances, coercions, s_cache, kostka>>

CallC1 ==
    /\ call.op = "c1" /\ res.kind = "none"
    /\ res' = Value(c1(call.part, Pq, Pt))
    /\ UNCHANGED call /\ AlgFrame

CallC2 ==
    /\ call.op = "c2" /\ res.kind = "none"
    /\ res' = Value(c2(call.part, Pq, Pt))
    /\ UNCHANGED call /\ AlgFrame

CallScalarQtBasis ==
    /\ call.op = "scalar_qt_basis" /\ res.kind = "none"
    /\ res' = Value(scalar_qt_basis(Pq, Pt, call.part1, call.part2))
    /\ UNCHANGED call /\ AlgFrame

CallScalarQt ==
    /\ call.op = "scalar_qt" /\ res.kind = "none"
    /\ res' = scalar_qt(Pq, Pt, call.self, call.x)
    /\ UNCHANGED call /\ AlgFrame

\* B(part), the start of a chain of coercions.
CallBasisElement ==
    /\ call.op = "coerce" /\ res.kind = "none"
    /\ res' = Value(call.origin)
    /\ UNCHANGED call /\ AlgFrame

\* B(x) for the element x the last call gave, B a basis with a registered
\* diagonal coercion from the basis of x.
CallCoerce(b) ==
    /\ call.op = "coerce" /\ res.kind # "none"
    /\ Len(call.path) <= MaxHops
    /\ <<res.val.basis, b>> \in DiagonalCoercions
    /\ call' = [call EXCEPT !.path = Append(@, b)]
    /\ res' = Value(Coerce(Pq, Pt, res.val, b))
    /\ AlgFrame

\* x.nabla() for x in the Ht basis.
CallNabla ==
    /\ call.op = "nabla" /\ res.kind = "none"
    /\ res' = Value(Ht_nabla(Pq, Pt, call.self))
    /\ UNCHANGED call /\ AlgFrame

NextAlg ==
    \/ CallC1
    \/ CallC2
    \/ CallScalarQtBasis
    \/ CallScalarQt
    \/ CallBasisElement
    \/ \E b \in {"P", "Q", "J"} : CallCoerce(b)
    \/ CallNabla

SpecAlg == InitAlg /\ [][NextAlg]_vars

(***************************************************************************)
(* The products over the cells of a diagram, taken cell by cell.           *)
(***************************************************************************)
\* The cells of the diagram of part, <<row, column>>.
Cells(part) ==
    UNION {{<<i, j>> : j \in 1..part[i]} : i \in 1..Len(part)}

\* The number of cells strictly to the right of c in its row.
Arm(part, c) == Cardinality({d \in Cells(part) : d[1] = c[1] /\ d[2] > c[2]})

\* The number of cells strictly below c in its column.
Leg(part, c) == Cardinality({d \in Cells(part) : d[2] = c[2] /\ d[1] > c[1]})

RECURSIVE PProdOver(_, _)
PProdOver(S, f) ==
    IF S = {} THEN POne
    ELSE LET x == CHOOSE y \in S : TRUE IN PMul(f[x], PProdOver(S \ {x}, f))

\* The product over the cells of (1 - q^(arm+1) t^leg).
CellProduct1(part) ==
    PProdOver(Cells(part),
        [c \in Cells(part) |->
            PSub(POne, PMono(1, Arm(part, c) + 1, Leg(part, c)))])

\* The product over the cells of (1 - q^arm t^(leg+1)).
CellProduct2(part) ==
    PProdOver(Cells(part),
        [c \in Cells(part) |->
            PSub(POne, PMono(1, Arm(part, c), Leg(part, c) + 1))])

Returned == res.kind # "none"

(***************************************************************************)
(* C4: for all partitions lambda, mu of equal weight the qt-scalar product *)
(* of P(lambda) and Q(mu) is 1 if lambda = mu and 0 otherwise, in both     *)
(* argument orders.                                                        *)
(***************************************************************************)
C4_PQDual ==
    (/\ call.op = "scalar_qt" /\ Returned
     /\ {call.self.basis, call.x.basis} = {"P", "Q"}
     /\ \A l \in DOMAIN call.self.mc, m \in DOMAIN call.x.mc : Size(l) = Size(m))
    => /\ res.kind = "value"
       /\ REq(res.val, IF DOMAIN call.self.mc = DOMAIN call.x.mc THEN ROne ELSE RZero)

\* P([2,1]).scalar_qt(Q([2,1])) has returned 1.
C4_Witness ==
    /\ call.op = "scalar_qt" /\ Returned
    /\ call.self = BasisElement("P", <<2, 1>>)
    /\ call.x = BasisElement("Q", <<2, 1>>)
    /\ res.kind = "value" /\ REq(res.val, ROne)

(***************************************************************************)
(* C5: for every partition lambda the diagonal conversions round-trip:     *)
(* J(lambda) to P and back, P(lambda) to Q and back and Q(lambda) to P and *)
(* back each give the original basis element with coefficient 1.           *)
(***************************************************************************)
RoundTrips == {<<"J", "P", "J">>, <<"P", "Q", "P">>, <<"Q", "P", "Q">>}

C5_RoundTrip ==
    (call.op = "coerce" /\ Returned /\ call.path \in RoundTrips)
    => /\ res.val.basis = call.origin.basis
       /\ DOMAIN res.val.mc = DOMAIN call.origin.mc
       /\ \A part \in DOMAIN res.val.mc : REq(res.val.mc[part], ROne)

\* J([2,1]) has been converted to P and back to J.
C5_Witness ==
    /\ call.op = "coerce" /\ Returned
    /\ call.path = <<"J", "P", "J">>
    /\ call.origin = BasisElement("J", <<2, 1>>)
    /\ res.val.basis = "J"

(***************************************************************************)
(* C6: P.scalar_qt_basis(lambda, mu) is c1(lambda)/c2(lambda) when mu is   *)
(* omitted or equal to lambda and zero otherwise, the same scalar is the   *)
(* diagonal coefficient of the conversion from P to Q, and for lambda =    *)
(* [2] it is (q^3 - q^2 - q + 1)/(q*t^2 - q*t - t + 1).                    *)
(***************************************************************************)
C6_Value2 ==
    Frac(Poly(<< <<1, 3, 0>>, <<-1, 2, 0>>, <<-1, 1, 0>>, <<1, 0, 0>> >>),
         Poly(<< <<1, 1, 2>>, <<-1, 1, 1>>, <<-1, 0, 1>>, <<1, 0, 0>> >>))

C6_Expected(part) ==
    Frac(CellProduct1(part), CellProduct2(part))

C6_ScalarQtBasis ==
    /\ (call.op = "scalar_qt_basis" /\ Returned)
       => /\ res.kind = "value"
          /\ IF call.part2 = NoPart \/ call.part2 = call.part1
             THEN /\ REq(res.val, C6_Expected(call.part1))
                  /\ call.part1 = <<2>> => REq(res.val, C6_Value2)
             ELSE RIsZero(res.val)
    /\ (call.op = "coerce" /\ Returned /\ call.path = <<"P", "Q">>)
       => \A part \in DOMAIN call.origin.mc :
              /\ part \in DOMAIN res.val.mc
              /\ REq(res.val.mc[part], C6_Expected(part))

\* P.scalar_qt_basis([2]) has returned with mu omitted.
C6_Witness ==
    /\ call.op = "scalar_qt_basis" /\ Returned
    /\ call.part1 = <<2>> /\ call.part2 = NoPart
    /\ REq(res.val, C6_Value2)

(***************************************************************************)
(* C7: for every partition lambda, c1 is the product over the cells of     *)
(* lambda of (1 - q^(arm+1) t^leg) and c2 the product over the cells of    *)
(* (1 - q^arm t^(leg+1)), arm and leg of one factor belonging to the same  *)
(* cell; both are 1 on the empty partition.                                *)
(***************************************************************************)
C7_CellProducts ==
    /\ (call.op = "c1" /\ Returned)
       => /\ res.val = CellProduct1(call.part)
          /\ call.part = <<>> => res.val = POne
    /\ (call.op = "c2" /\ Returned)
       => /\ res.val = CellProduct2(call.part)
          /\ call.part = <<>> => res.val = POne

\* c1 has returned on [2,1], whose corner cell has arm 1 and leg 1.
C7_Witness ==
    /\ call.op = "c1" /\ Returned
    /\ call.part = <<2, 1>>
    /\ Arm(call.part, <<1, 1>>) = 1 /\ Leg(call.part, <<1, 1>>) = 1

(***************************************************************************)
(* C8: c1([1,1]) = q*t - q - t + 1 and c2([1,1]) = t^3 - t^2 - t + 1.      *)
(* The value of c1 is the one the code does not give; the code gives       *)
(* c1([1,1]) = q^2*t - q*t - q + 1, and c2([1,1]) as stated.               *)
(***************************************************************************)
C8_Original ==
    /\ (call.op = "c1" /\ Returned /\ call.part = <<1, 1>>)
       => res.val = Poly(<< <<1, 1, 1>>, <<-1, 1, 0>>, <<-1, 0, 1>>, <<1, 0, 0>> >>)
    /\ (call.op = "c2" /\ Returned /\ call.part = <<1, 1>>)
       => res.val = Poly(<< <<1, 0, 3>>, <<-1, 0, 2>>, <<-1, 0, 1>>, <<1, 0, 0>> >>)

C8_Amended ==
    /\ (call.op = "c1" /\ Returned /\ call.part = <<1, 1>>)
       => res.val = Poly(<< <<1, 2, 1>>, <<-1, 1, 1>>, <<-1, 1, 0>>, <<1, 0, 0>> >>)
    /\ (call.op = "c2" /\ Returned /\ call.part = <<1, 1>>)
       => res.val = Poly(<< <<1, 0, 3>>, <<-1, 0, 2>>, <<-1, 0, 1>>, <<1, 0, 0>> >>)

\* c1 has returned on [1,1].
C8_Witness ==
    /\ call.op = "c1" /\ Returned /\ call.part = <<1, 1>>
    /\ res.val = Poly(<< <<1, 2, 1>>, <<-1, 1, 1>>, <<-1, 1, 0>>, <<1, 0, 0>> >>)

(***************************************************************************)
(* C1: for every family and after any sequence of constructor calls, two   *)
(* calls of the family's constructor that denote the same parameters       *)
(* return the identical object: the object a call returns is the only      *)
(* object of its family with its base ring, its q and its t.  In           *)
(* particular F(R) and F(Frac(R['q,t']), q, t) return the same object,     *)
(* whichever is called first.                                              *)
(***************************************************************************)
\* What the object id is a basis of: the family, the base ring, q and t.
Denotes(id) ==
    <<instances[id].family, instances[id].base_ring, instances[id].q,
      instances[id].t>>

C1_SameInstance ==
    (call.op = "construct" /\ res.kind = "value")
    => \A id \in DOMAIN instances : Denotes(id) = Denotes(res.val) => id = res.val

(***************************************************************************)
(* C2: a constructor call with a fixed q or a fixed t that is not an       *)
(* element of R raises ValueError, whether only t, only q or both are      *)
(* fixed, and leaves the instance caches, the objects, the coercions, the  *)
(* Schur tables and the qt-Kostka cache as they were.                      *)
(***************************************************************************)
\* q or t is fixed to something that is not an element of R.
FixedOutside(R, q, t) == (q # None /\ ~In(q, R)) \/ (t # None /\ ~In(t, R))

C2_ValueError ==
    [][(call'.op = "construct" /\ FixedOutside(call'.R, call'.q, call'.t))
       => /\ res'.kind = "error" /\ res'.val = "ValueError"
          /\ UNCHANGED <<cache, instances, coercions, s_cache, kostka>>]_vars

\* A call with only q fixed, to an element outside QQ, has raised while
\* objects and cache entries exist.
C2_Witness ==
    /\ call.op = "construct" /\ call.q = Outsider /\ call.t = None
    /\ res.kind = "error" /\ res.val = "ValueError"
    /\ instances # <<>>
    /\ cache[call.family] # <<>>

(***************************************************************************)
(* C3: the base ring of a constructed basis is R extended by exactly the   *)
(* parameters left unspecified: Frac(R['q,t']) with q, t its generators    *)
(* when neither is fixed, Frac(R['q']) with t an element of R when only t  *)
(* is fixed, Frac(R['t']) with q an element of R when only q is fixed, and *)
(* R itself with both elements of R when both are fixed.                   *)
(***************************************************************************)
\* x stored as an element of R.
StoredIn(R, x, stored) == stored.parent = R /\ stored.val = x.val

C3_BaseRingOf(self, R, q, t) ==
    /\ (q = None /\ t = None)
       => /\ self.base_ring = FractionField(R, "q,t")
          /\ self.q = Gen(self.base_ring, "q")
          /\ self.t = Gen(self.base_ring, "t")
    /\ (q = None /\ t # None)
       => /\ self.base_ring = FractionField(R, "q")
          /\ self.q = Gen(self.base_ring, "q")
          /\ StoredIn(R, t, self.t)
    /\ (q # None /\ t = None)
       => /\ self.base_ring = FractionField(R, "t")
          /\ StoredIn(R, q, self.q)
          /\ self.t = Gen(self.base_ring, "t")
    /\ (q # None /\ t # None)
       => /\ self.base_ring = R
          /\ StoredIn(R, q, self.q)
          /\ StoredIn(R, t, self.t)

C3_BaseRing ==
    \A id \in DOMAIN instances :
        C3_BaseRingOf(instances[id], instances[id].args[1],
                      instances[id].args[2], instances[id].args[3])

\* S bases over QQ exist with neither, only t, only q and both fixed.
C3_Witness ==
    \A a \in {<<QQ, None, None>>, <<QQ, None, Two>>, <<QQ, Two, None>>,
              <<QQ, Two, Two>>} :
        \E id \in DOMAIN instances :
            instances[id].family = "S" /\ instances[id].args = a

(***************************************************************************)
(* C9: qt_kostka(lambda, mu) returns the zero polynomial whenever lambda   *)
(* and mu have different weight, and then it computes nothing: the         *)
(* qt-Kostka cache, the Schur tables, the objects and their caches are     *)
(* left as they were.                                                      *)
(***************************************************************************)
C9_DifferentWeights ==
    [][(call'.op = "qt_kostka" /\ Size(call'.lam) # Size(call'.mu))
       => /\ res'.kind = "value" /\ res'.val = PZero
          /\ UNCHANGED <<cache, instances, coercions, s_cache, kostka>>]_vars

\* qt_kostka([2], [1]) has returned zero before anything was computed.
C9_Witness ==
    /\ call.op = "qt_kostka" /\ call.lam = <<2>> /\ call.mu = <<1>>
    /\ res.kind = "value" /\ res.val = PZero
    /\ kostka = <<>> /\ instances = <<>>

RowsAbove(part) == SumOver(Cells(part), [c \in Cells(part) |-> c[1] - 1])

\* n(lambda'): the sum over the cells of the number of columns to the left.
ColumnsLeft(part) == SumOver(Cells(part), [c \in Cells(part) |-> c[2] - 1])

C11_Nabla ==
    (call.op = "nabla" /\ Returned)
    => /\ res.kind = "value"
       /\ res.val.basis = "Ht"
       /\ DOMAIN res.val.mc = DOMAIN call.self.mc
       /\ \A part \in DOMAIN call.self.mc :
              /\ REq(res.val.mc[part],
                     RMul(call.self.mc[part],
                          RFromPoly(PMono(1, ColumnsLeft(part), RowsAbove(part)))))
              /\ ~RIsZero(res.val.mc[part])
       /\ call.self = SumOfBasis("Ht", 3)
          => /\ REq(res.val.mc[<<1, 1, 1>>], RFromPoly(PMono(1, 0, 3)))
             /\ REq(res.val.mc[<<2, 1>>], RFromPoly(PMono(1, 1, 1)))
             /\ REq(res.val.mc[<<3>>], RFromPoly(PMono(1, 3, 0)))

\* nabla has returned on the sum of the Ht basis elements of weight 3.
C11_Witness ==
    /\ call.op = "nabla" /\ Returned
    /\ call.self = SumOfBasis("Ht", 3)
    /\ REq(res.val.mc[<<3>>], RFromPoly(PMono(1, 3, 0)))

(***************************************************************************)
(* C12.  For every basis with a _to_s (J, H, Ht, S) and every degree n the *)
(* basis-to-Schur table is lower-triangular with nonzero diagonal under    *)
(* the dominance order: the entry at (lambda, mu) is nonzero only if       *)
(* lambda dominates mu, and the entry at (lambda, lambda) is nonzero.      *)
(* This holds of the table of J only.  The tables of H, Ht and S have a    *)
(* nonzero diagonal and from degree 2 on entries above it: H([1,1]) is     *)
(* s[1,1] + t*s[2].                                                        *)
(***************************************************************************)
\* part[1] + ... + part[i]
PrefixSum(part, i) == SeqSum([j \in 1..i |-> Part(part, j)])

\* lam dominates mu, or is mu.
Dominates(lam, mu) ==
    /\ Size(lam) = Size(mu)
    /\ \A i \in 1..Size(lam) : PrefixSum(lam, i) >= PrefixSum(mu, i)

\* The rows of a table keep the nonzero entries only.
LowerTriangular(table) ==
    \A lam \in DOMAIN table : \A mu \in DOMAIN table[lam] : Dominates(lam, mu)

NonzeroDiagonal(table) == \A lam \in DOMAIN table : lam \in DOMAIN table[lam]

TableEntry(table, part, part2) ==
    IF part2 \in DOMAIN table[part] THEN table[part][part2] ELSE RZero

\* The entry at (part, part2) of the table first composed with second.
ComposedEntry(first, second, part, part2) ==
    RSumOver(DOMAIN first[part],
             [k \in DOMAIN first[part] |->
                 RMul(first[part][k], TableEntry(second, k, part2))])

IdentityComposed(first, second, n) ==
    \A part \in Partitions(n), part2 \in Partitions(n) :
        REq(ComposedEntry(first, second, part, part2),
            IF part = part2 THEN ROne ELSE RZero)

OverPartitions(table, n) ==
    /\ DOMAIN table = Partitions(n)
    /\ \A part \in DOMAIN table : DOMAIN table[part] \subseteq Partitions(n)

InverseTables(tables, n) ==
    /\ n \in DOMAIN tables.self_to_s
    /\ n \in DOMAIN tables.s_to_self
    /\ OverPartitions(tables.self_to_s[n], n)
    /\ OverPartitions(tables.s_to_self[n], n)
    /\ IdentityComposed(tables.self_to_s[n], tables.s_to_self[n], n)
    /\ IdentityComposed(tables.s_to_self[n], tables.self_to_s[n], n)

IndexOfElement(x) == CHOOSE part \in DOMAIN x.mc : TRUE

C14_DegreeMismatch ==
    /\ (/\ call.op = "scalar_qt_basis" /\ Returned
        /\ call.part2 # NoPart
        /\ Size(call.part1) # Size(call.part2))
       => res.kind # "value"
    /\ (/\ call.op = "scalar_qt" /\ Returned
        /\ Size(IndexOfElement(call.self)) # Size(IndexOfElement(call.x)))
       => res.kind # "value"
    /\ (/\ call.op = "scalar_qt_basis" /\ Returned
        /\ res.kind = "value" /\ RIsZero(res.val))
       => /\ call.part2 # NoPart
          /\ call.part1 # call.part2
          /\ Size(call.part1) = Size(call.part2)

(***************************************************************************)
(* C15.  A specialisation of q or t that makes a diagonal coefficient      *)
(* vanish (q = 1 makes c1 zero, t = 1 makes c2 zero) is rejected by the    *)
(* constructor of the basis or by the inverter, and never surfaces as a    *)
(* division by zero inside a later conversion or pairing.  The             *)
(* constructors accept q = 1 and t = 1, and the division by zero is        *)
(* raised by P.scalar_qt_basis and by the conversion from the Schur        *)
(* functions to J.                                                         *)
(***************************************************************************)
\* C15, its last part: no conversion and no pairing raises a division by
\* zero, whatever q and t the object was constructed with.
C15_NoDivisionByZero ==
    (call.op \in {"scalar_qt_basis", "_s_to_self"} /\ Returned)
    => ~(res.kind = "error" /\ res.val = "ZeroDivisionError")

(***************************************************************************)
(* C16.  scalar_qt takes a specialised route for the pairs (P,P), (P,Q),   *)
(* (Q,P) and (J,J) only; for every other pair, a P element with an element *)
(* that is neither P nor Q and a J element with a non-J element included,  *)
(* it goes to the power sums and returns what that route gives, and does   *)
(* not fail.  The last branch of P's and of J's scalar_qt raises.          *)
(***************************************************************************)
SpecialisedPairs == {<<"P", "P">>, <<"P", "Q">>, <<"Q", "P">>, <<"J", "J">>}

C16_Routes ==
    (call.op = "scalar_qt" /\ Returned)
    => IF <<call.self.basis, call.x.basis>> \in SpecialisedPairs
       THEN res.kind = "value"
       ELSE res.kind = "power_sum_route"

(***************************************************************************)
(* C17.  The basis-to-Schur table of degree n and its inverse that a basis *)
(* object reads are the tables of its own ring, q and t, whatever object   *)
(* of the family asked first: a conversion gives what it gives from the    *)
(* tables computed with the object's own t.  The tables of S are computed  *)
(* with the t of the object that asks first and kept for every S object.   *)
(***************************************************************************)
\* The table of degree n computed with the parameters of the object id.
OwnTable(id, which, n) ==
    IF which = "self_to_s"
    THEN self_to_s_values[<<id.family, AsPoly(instances[id].t), n>>]
    ELSE s_to_self_values[<<id.family, AsPoly(instances[id].t), n>>]

\* The conversion of from(part) on the object id, read in its own table.
OwnConversion(id, part, which, from, to) ==
    from_cache_read(BasisElement(from, part), OwnTable(id, which, Size(part)),
                    to, AsPoly(instances[id].q), AsPoly(instances[id].t))

SameElement(x, y) ==
    /\ x.basis = y.basis
    /\ DOMAIN x.mc = DOMAIN y.mc
    /\ \A part \in DOMAIN x.mc : REq(x.mc[part], y.mc[part])

C17_OwnTables ==
    /\ (call.op = "_self_to_s" /\ Returned)
       => SameElement(res.val,
                      OwnConversion(call.self, call.part, "self_to_s",
                                    call.self.family, "s").val)
    /\ (call.op = "_s_to_self" /\ Returned)
       => SameElement(res.val,
                      OwnConversion(call.self, call.part, "s_to_self",
                                    "s", call.self.family).val)

(***************************************************************************)
(* C18.  Between calls the qt-Kostka cache holds for each degree n either  *)
(* an entry for every ordered pair of partitions of n or no entry of that  *)
(* degree.  A call qt_kostka(lambda, mu) with |lambda| = |mu| = n that     *)
(* misses fills exactly degree n and leaves the entries of the other       *)
(* degrees as they were; a call that hits returns the stored value and     *)
(* computes nothing.                                                       *)
(***************************************************************************)
\* The keys of the cache with a partition of n in them.
KostkaDegree(n) == {k \in DOMAIN kostka : Size(k[1]) = n \/ Size(k[2]) = n}

KostkaAllOrNone ==
    /\ DOMAIN kostka \subseteq UNION {PairsOfDegree(n) : n \in 0..MaxKostkaWeight}
    /\ \A n \in 0..MaxKostkaWeight :
           KostkaDegree(n) = {} \/ KostkaDegree(n) = PairsOfDegree(n)

KostkaStep ==
    (call'.op = "qt_kostka" /\ Size(call'.lam) = Size(call'.mu))
    => IF <<call'.lam, call'.mu>> \in DOMAIN kostka
       THEN /\ UNCHANGED <<cache, instances, coercions, s_cache, kostka>>
            /\ res' = Value(kostka[<<call'.lam, call'.mu>>])
       ELSE /\ DOMAIN kostka \cap PairsOfDegree(Size(call'.mu)) = {}
            /\ DOMAIN kostka' = DOMAIN kostka \cup PairsOfDegree(Size(call'.mu))
            /\ \A k \in DOMAIN kostka : kostka'[k] = kostka[k]
            /\ res' = Value(kostka'[<<call'.lam, call'.mu>>])

\* The cache is empty to begin with; every step leaves it all-or-none.
C18_AllOrNone == [][KostkaAllOrNone' /\ KostkaStep]_vars

\* qt_kostka([1,1], [2]) has returned from the cache, which holds the
\* degrees 1 and 2 and no other.
C18_Witness ==
    /\ call.op = "qt_kostka" /\ call.hit
    /\ call.lam = <<1, 1>> /\ call.mu = <<2>>
    /\ DOMAIN kostka = PairsOfDegree(1) \cup PairsOfDegree(2)
    /\ res = Value(kostka[<<call.lam, call.mu>>])

(***************************************************************************)
(* C19.  When two threads ask at the same time for the same uncached       *)
(* qt-Kostka degree the insertion is serialised: the degree is computed    *)
(* at most once, and no thread finds the degree partially filled.  The     *)
(* code takes no lock: two threads that miss both run the loops, and a     *)
(* thread that looks up a key between two stores of another finds it.      *)
(***************************************************************************)
Filling(i, n) ==
    /\ call[i].op = "qt_kostka" /\ call[i].pc = "fill"
    /\ Size(call[i].mu) = n

C19_Serialised ==
    /\ \A i \in Threads, j \in Threads, n \in 0..MaxKostkaWeight :
           (Filling(i, n) /\ Filling(j, n)) => i = j
    /\ \A i \in Threads : call[i].op = "qt_kostka" => ~call[i].partial

(***************************************************************************)
(* C20.  nabla on an element of a basis other than Ht uses the Ht object   *)
(* already bound in cache_ht for the parameters of the parent, and leaves  *)
(* every binding of cache_ht as it was: the object the Ht constructor      *)
(* returns for given arguments is the same before and after.  The code     *)
(* calls the class MacdonaldPolynomials_ht itself, and the __init__ of the *)
(* new object binds the spellings of its parameters to the new object.     *)
(***************************************************************************)
C20_NablaFrame ==
    [][(call'.op = "nabla" /\ call'.parent.family # "Ht")
       => \A k \in DOMAIN cache["Ht"] :
              /\ k \in DOMAIN cache'["Ht"]
              /\ cache'["Ht"][k] = cache["Ht"][k]]_vars

(***************************************************************************)
(* C21.  J._to_s(lambda) starts from the unit of the S basis, applies      *)
(* creation(k) exactly once for each part k of lambda in the order of      *)
(* reversed(lambda), the smallest part first and the largest last, and     *)
(* only then applies the omega map in the Schur functions and after it the *)
(* exchange of q and t; at every creation(k) every partition of the        *)
(* support of the element it is applied to has at most k parts, so no      *)
(* creation raises, whatever lambda is.                                    *)
(***************************************************************************)
\* The call of J._to_s begins: nothing is applied and res is the unit.
ToSBegins ==
    (call.op = "none" /\ call'.op = "_to_s")
    => /\ call'.res = [x \in {<<>>} |-> POne]
       /\ call'.applied = <<>>
       /\ call'.pc = "for"

\* A creation is applied: it is the creation of the next part from the end
\* of lambda, on an element whose partitions have at most that many parts,
\* and it is at least as large as the one before.
ToSCreates ==
    (call.op = "_to_s" /\ call'.op = "_to_s" /\ call'.applied # call.applied)
    => /\ call.pc = "for" /\ call'.pc = "for"
       /\ Len(call.applied) < Len(call.part)
       /\ call'.applied =
              Append(call.applied, call.part[Len(call.part) - Len(call.applied)])
       /\ \A part \in DOMAIN call.res :
              Len(part) <= call.part[Len(call.part) - Len(call.applied)]
       /\ Len(call.applied) > 0
          => call.applied[Len(call.applied)]
                 <= call.part[Len(call.part) - Len(call.applied)]
       /\ call'.res = creation(Pq, Pt, call.res,
                               call.part[Len(call.part) - Len(call.applied)])

\* The loop is left once every part has had its creation, and res changes
\* in the loop by a creation only.
ToSLoops ==
    /\ (call'.op = "_to_s" /\ call'.pc # "for")
       => /\ Len(call'.applied) = Len(call'.part)
          /\ \A i \in 1..Len(call'.part) :
                 call'.applied[i] = call'.part[Len(call'.part) + 1 - i]
    /\ (call.op = "_to_s" /\ call'.op = "_to_s" /\ call'.pc = "for"
        /\ call'.res # call.res)
       => call'.applied # call.applied

\* The omega map comes after the loop: s[mu'] gets the coefficient of S[mu].
ToSConjugates ==
    (call.op = "_to_s" /\ call.pc = "for" /\ call'.op = "_to_s"
     /\ call'.pc # "for" /\ call'.pc # "returned")
    => /\ call'.pc = "map_coefficients"
       /\ DOMAIN call'.res = {Conjugate(part) : part \in DOMAIN call.res}
       /\ \A part \in DOMAIN call.res : call'.res[Conjugate(part)] = call.res[part]

\* The exchange of q and t comes after the omega map and before the return.
ToSExchanges ==
    /\ (call.op = "_to_s" /\ call'.op = "_to_s" /\ call'.pc = "return")
       => /\ call.pc = "map_coefficients"
          /\ DOMAIN call'.res = DOMAIN call.res
          /\ \A part \in DOMAIN call.res :
                 /\ DOMAIN call'.res[part]
                        = {<<e[2], e[1]>> : e \in DOMAIN call.res[part]}
                 /\ \A e \in DOMAIN call.res[part] :
                        call'.res[part][<<e[2], e[1]>>] = call.res[part][e]
    /\ (call.op = "_to_s" /\ call'.op = "_to_s" /\ call'.pc = "returned")
       => /\ call.pc = "return"
          /\ res' = Value(call.res)
          /\ call'.res = call.res

C21_ToS ==
    [][/\ ToSBegins
       /\ ToSCreates
       /\ ToSLoops
       /\ ToSConjugates
       /\ ToSExchanges
       /\ call'.op = "_to_s" => res'.kind # "error"]_vars

\* J._to_s([2,1]) has returned after creation(1) and then creation(2), with
\* the coefficients of its example: 0 on [3],
\* -q*t^4 + 2*q*t^3 - q*t^2 + t^2 - 2*t + 1 on [2,1] and
\* q*t^3 - t^4 - q*t^2 + t^3 - q*t + t^2 + q - t on [1,1,1].
C21_Witness ==
    /\ call.op = "_to_s" /\ call.pc = "returned"
    /\ call.part = <<2, 1>>
    /\ call.applied = <<1, 2>>
    /\ res.kind = "value"
    /\ DOMAIN res.val = {<<2, 1>>, <<1, 1, 1>>}
    /\ res.val[<<2, 1>>] =
           (<<0, 0>> :> 1 @@ <<0, 1>> :> 0 - 2 @@ <<0, 2>> :> 1
            @@ <<1, 2>> :> 0 - 1 @@ <<1, 3>> :> 2 @@ <<1, 4>> :> 0 - 1)
    /\ res.val[<<1, 1, 1>>] =
           (<<0, 1>> :> 0 - 1 @@ <<0, 2>> :> 1 @@ <<0, 3>> :> 1
            @@ <<0, 4>> :> 0 - 1 @@ <<1, 0>> :> 1 @@ <<1, 1>> :> 0 - 1
            @@ <<1, 2>> :> 0 - 1 @@ <<1, 3>> :> 1)

(***************************************************************************)
(* C22.  creation(k) on an element of the S basis whose support has a      *)
(* partition of more than k parts raises ValueError.  Otherwise, for each  *)
(* partition of the support padded with zeros to length k, the matrix of   *)
(* the determinant has exactly k rows of exactly k entries; counting rows  *)
(* and columns from 0, the entry at (i, j) is the zero the row is padded   *)
(* with exactly when part[i]+j-i+1 < 0, and every other entry carries the  *)
(* complete function of index part[i]+j-i+1 >= 0 and the coefficient       *)
(* 1 - q^(part[i]+j-i+1) * t^(k-(j+1)) with k-(j+1) >= 0, which is not     *)
(* zero when q and t are the generators; so every term of the determinant  *)
(* has degree |part| + k.                                                  *)
(***************************************************************************)
\* The entry of the matrix m at row i and column j, both counted from 0,
\* is as the claim says for the partition part.
EntryAsClaimed(m, q, t, k, part, i, j, value) ==
    /\ ~m[i + 1][j + 1].built <=> value < 0
    /\ m[i + 1][j + 1].built
       => /\ value >= 0
          /\ k - (j + 1) >= 0
          /\ m[i + 1][j + 1].h = (IF value = 0 THEN <<>> ELSE <<value>>)
          /\ m[i + 1][j + 1].coefficient
                 = PSub(POne, PMul(PPow(q, value), PPow(t, k - (j + 1))))
          /\ (q = Pq /\ t = Pt) => m[i + 1][j + 1].coefficient # PZero

\* The degree of the term of the permutation s of the columns.
TermDegree(m, k, s) == SeqSum([i \in 1..k |-> SeqSum(m[i][s[i]].h)])

MatrixAsClaimed(m, q, t, k, part) ==
    /\ Len(m) = k
    /\ \A i \in 1..k : Len(m[i]) = k
    /\ \A i \in 0..(k - 1), j \in 0..(k - 1) :
           EntryAsClaimed(m, q, t, k, part, i, j, Part(part, i + 1) + j - i + 1)
    /\ \A s \in Perms(k) :
           (\A i \in 1..k : m[i][s[i]].built) => TermDegree(m, k, s) = Size(part) + k

C22_Creation ==
    call.op = "creation"
    => /\ (\E part \in DOMAIN call.self : Len(part) > call.k)
          => res = Raise("ValueError")
       /\ (\A part \in DOMAIN call.self : Len(part) <= call.k)
          => /\ res.kind = "value"
             /\ DOMAIN call.m = DOMAIN call.self
             /\ \A part \in DOMAIN call.self :
                    MatrixAsClaimed(call.m[part], call.parent.q, call.parent.t,
                                    call.k, part)
             /\ \A part2 \in DOMAIN res.val :
                    \E part \in DOMAIN call.self : Size(part2) = Size(part) + call.k

\* creation(3) has returned on S([1]) + S([1,1]): the third row of the
\* matrix of [1] starts with a zero, and the result has degrees 4 and 5.
C22_Witness ==
    /\ call.op = "creation" /\ call.k = 3
    /\ call.parent = [q |-> Pq, t |-> Pt]
    /\ DOMAIN call.self = {<<1>>, <<1, 1>>}
    /\ res.kind = "value"
    /\ ~call.m[<<1>>][3][1].built
    /\ call.m[<<1>>][3][2].built
    /\ {Size(part2) : part2 \in DOMAIN res.val} = {4, 5}
====
